---- MODULE Spec2Model ----
(***************************************************************************)
(* A model of the AI Counsellor web application: the hosted database       *)
(* tables of one signed-in user, the data-access layer (db/api), and the   *)
(* handlers of OnboardingPage, DashboardPage, UniversitiesPage,            *)
(* ApplicationPage and CounsellorPage.  Every awaited database call of a handler is one step,  *)
(* so that handlers interleave exactly where the code awaits.              *)
(***************************************************************************)
EXTENDS Integers, Sequences, FiniteSets, TLC

\* ------------------------------------------------------------------------
\* Bounds of the model
\* ------------------------------------------------------------------------
\* rows of the universities table
NumUnis == 2
\* tasks of their own the user keeps next to the default tasks
MaxOwnTasks == 1
\* rows of chat_messages beyond which the user sends no further message
MaxChat == 5
\* words of the longest message sent to the counsellor
MaxWords == 2
\* rows of the universities table when the counsellor recommends
MaxListed == 9

Unis == 1..NumUnis

\* ------------------------------------------------------------------------
\* Types of the program
\* ------------------------------------------------------------------------
UserStage == <<"not_started", "onboarding", "exploring", "shortlisting", "committed", "applying">>
StageIndex(s) == CHOOSE i \in 1..Len(UserStage) : UserStage[i] = s

UniversityCategory == {"dream", "target", "safe"}

Reverse(s) == [i \in 1..Len(s) |-> s[Len(s) + 1 - i]]
Range(s) == {s[i] : i \in 1..Len(s)}

\* ------------------------------------------------------------------------
\* State
\* ------------------------------------------------------------------------
VARIABLES
    \* database rows of the signed-in user
    current_stage,          \* profiles.current_stage
    onboarding_completed,   \* profiles.onboarding_completed
    shortlist,              \* user_shortlisted_universities: set of [university_id, category]
    lockedRows,             \* user_locked_universities: university ids, oldest lock first
    tasks,                  \* tasks: rows [id, title, university_id, completed], oldest first
    chat_messages,          \* chat_messages: rows [role, content], oldest first
    preferences,            \* profiles: the columns the onboarding form fills in
    universities,           \* universities: rows [ranking, country, tuition_fee_min] by id
    \* AuthContext and router
    profile,                \* the cached profile row handed to the pages by useAuth()
    route,                  \* the mounted page
    \* UniversitiesPage component state
    shortlisted,            \* useState shortlisted: university ids of the last load
    locked,                 \* useState locked: university ids of the last load
    categoryDialog,         \* university of the open category dialog, 0 when closed
    unlockDialog,           \* university of the open unlock dialog, 0 when closed
    uniLoading,             \* useState loading: the spinner replaces the cards
    uh,                     \* the running handlers of UniversitiesPage
    \* ApplicationPage component state
    tasksState,             \* useState tasks: rows of the last load, in display order
    lockedUniversities,     \* useState lockedUniversities: ids of the last load, latest lock first
    appLoading,             \* useState loading
    ah,                     \* the running handler of ApplicationPage
    \* OnboardingPage component state
    currentStep,            \* useState currentStep
    formData,               \* useState formData
    ob,                     \* handleSubmit in flight
    \* DashboardPage component state
    dashboard,              \* useState shortlistCount, lockedCount, taskStats, loading
    dh,                     \* the load of the dashboard effect in flight
    \* CounsellorPage component state
    messages,               \* useState messages
    input,                  \* useState input
    chatLoading,            \* useState loading
    initialLoading,         \* useState initialLoading
    lm,                     \* loadMessages of the load effect in flight
    ch,                     \* handleSend in flight
    replies,                \* history: every call of generateAIResponse that returned
    \* the four user-owned tables with the rows of two users, behind row-level security
    rls,                    \* the rows of one of them, and the last request of an authenticated user
    \* the same user's Application page open in a second browser tab
    tab,                    \* its component state and its load in flight
    \* CounsellorPage: the load effect has run again, its dependency profile having changed
    lm2,                    \* loadMessages of that second run in flight
    \* CounsellorPage: the user has left the page while handleSend was awaiting
    ch2                     \* handleSend of the page instance that was unmounted

refVars == <<preferences, universities, rls, tab, lm2, ch2>>
dbVars == <<current_stage, onboarding_completed, shortlist, lockedRows, tasks, chat_messages, refVars>>
uniVars == <<shortlisted, locked, categoryDialog, unlockDialog, uniLoading, uh>>
appVars == <<tasksState, lockedUniversities, appLoading, ah>>
onbVars == <<currentStep, formData, ob>>
dashVars == <<dashboard, dh>>
chatVars == <<messages, input, chatLoading, initialLoading, lm, ch, replies>>
vars == <<dbVars, profile, route, uniVars, appVars, onbVars, dashVars, chatVars>>

\* ------------------------------------------------------------------------
\* Bookkeeping of one running handler: what it called and what it showed
\* ------------------------------------------------------------------------
NoCall == [fn |-> "none", trips |-> 0, tables |-> {}, returned |-> FALSE]
NothingRead == [shortlisted |-> {}, locked |-> <<>>, tasks |-> <<>>]
NoProfile == [current_stage |-> "none", onboarding_completed |-> FALSE, preferences |-> "none"]

\* the reply texts of the counsellor, by template and by the values interpolated
NoReply == [template |-> "none", stage |-> "none", dream |-> <<>>, target |-> <<>>, safe |-> <<>>,
            gpa |-> 0, budget_max |-> 0]
Template(t) == [NoReply EXCEPT !.template = t]
Welcome == Template("welcome")

IdleHandler ==
    [pc |-> "idle", op |-> "none",
     arg |-> 0,                \* the university or task the handler was called with
     cat |-> "none",           \* the category it was called with
     prof |-> "none",          \* profile?.current_stage of the render the handler closed over
     wrote |-> {},             \* tables in which the handler has changed a row of the user
     pend |-> {},              \* requests of Promise.all still outstanding
     got |-> NothingRead,      \* answers of Promise.all so far
     flag |-> FALSE,           \* the completed value the handler was called with
     i |-> 0,                  \* generateDefaultTasks: default tasks created so far
     gen |-> FALSE,            \* generateDefaultTasks is awaiting its nested loadData()
     muts |-> 0,               \* database mutations issued so far
     refetch |-> 0,            \* loadData() calls so far
     mutsAfter |-> 0,          \* database mutations issued after the first loadData() call
     err |-> FALSE,            \* a data-access call threw
     threw |-> {},             \* the data-access functions that threw
     toasted |-> {},           \* those of them whose catch block called toast.error
     retried |-> FALSE,        \* a data-access function was called again after it threw
     errToast |-> FALSE,       \* toast.error was shown
     okToast |-> FALSE,        \* toast.success was shown
     text |-> <<>>,            \* handleSend: the trimmed input
     aiProfile |-> NoProfile,  \* generateAIResponse: the row its getProfile returned
     aiReads |-> {},           \* generateAIResponse: the tables it has read
     reply |-> NoReply,        \* generateAIResponse: what it returned
     call |-> NoCall]          \* the data-access call in progress or last returned

\* one round trip of data-access function fn; more = TRUE while fn goes on
Trip(r, fn, tabs, more) ==
    LET goesOn == r.call.fn = fn /\ ~r.call.returned IN
    [r EXCEPT !.retried = @ \/ (fn \in r.threw /\ ~goesOn),
              !.call = [fn |-> fn,
                        trips |-> IF goesOn THEN r.call.trips + 1 ELSE 1,
                        tables |-> IF goesOn THEN r.call.tables \cup tabs ELSE tabs,
                        returned |-> ~more]]
Mutation(r) == [r EXCEPT !.muts = @ + 1, !.mutsAfter = IF r.refetch > 0 THEN @ + 1 ELSE @]
\* a write of the handler has changed the table t
Wrote(r, t) == [r EXCEPT !.wrote = @ \cup {t}]
Thrown(r) == [r EXCEPT !.err = TRUE, !.threw = @ \cup {r.call.fn}]
\* console.error(...); toast.error(...)
Toasted(r) == [Thrown(r) EXCEPT !.errToast = TRUE, !.toasted = @ \cup {r.call.fn}]
\* a handler's catch block: toast.error(...)
Caught(r) == [Toasted(r) EXCEPT !.pc = "done", !.pend = {}, !.got = NothingRead]
\* a handler's last statements: toast.success(...)
Succeeded(r) == [r EXCEPT !.pc = "done", !.okToast = TRUE, !.pend = {}, !.got = NothingRead]

\* ------------------------------------------------------------------------
\* Initial state: a confirmed user (handle_new_user has inserted the profile
\* row with the column defaults) who has just signed in
\* ------------------------------------------------------------------------
\* gpa, budget_max: 0 stands for NULL, which the code treats like 0
BlankPreferences == [gpa |-> 0, budget_max |-> 0, preferred_countries |-> {}]
\* the form of a user who filled in every step
FilledPreferences == [gpa |-> 38, budget_max |-> 2, preferred_countries |-> {"USA"}]
\* the universities the pages show: one row per id, ranked by id
ListedUniversities == [u \in Unis |-> [ranking |-> u, country |-> "USA", tuition_fee_min |-> 1]]

BlankDashboard == [shortlistCount |-> 0, lockedCount |-> 0, total |-> 0, completed |-> 0, loading |-> TRUE]

InitDb ==
    /\ current_stage = "not_started"
    /\ onboarding_completed = FALSE
    /\ shortlist = {}
    /\ lockedRows = <<>>
    /\ tasks = <<>>
    /\ chat_messages = <<>>
    /\ preferences = BlankPreferences
    /\ universities = ListedUniversities

\* no table under row-level security is looked at
NoRequest == [table |-> "none", rows |-> {}, actor |-> "none", cmd |-> "none", eq |-> "none",
              returned |-> {}, error |-> FALSE]

\* no second tab is open
NoTab == [open |-> FALSE, tasks |-> <<>>, lockedUniversities |-> <<>>, loading |-> TRUE, h |-> IdleHandler]

\* every page component starts from its useState initial values
InitPages ==
    /\ shortlisted = {}
    /\ locked = {}
    /\ categoryDialog = 0
    /\ unlockDialog = 0
    /\ uniLoading = TRUE
    /\ uh = [h \in {"first", "second"} |-> IdleHandler]
    /\ tasksState = <<>>
    /\ lockedUniversities = <<>>
    /\ appLoading = TRUE
    /\ ah = IdleHandler
    /\ currentStep = 1
    /\ formData = BlankPreferences
    /\ ob = IdleHandler
    /\ dashboard = BlankDashboard
    /\ dh = IdleHandler
    /\ messages = <<>>
    /\ input = <<>>
    /\ chatLoading = FALSE
    /\ initialLoading = TRUE
    /\ lm = IdleHandler
    /\ ch = IdleHandler
    /\ replies = {}

Init ==
    /\ InitDb
    /\ profile = [current_stage |-> "not_started", onboarding_completed |-> FALSE, preferences |-> BlankPreferences]
    /\ route = "dashboard"
    /\ InitPages
    /\ rls = NoRequest
    /\ tab = NoTab
    /\ lm2 = IdleHandler
    /\ ch2 = IdleHandler

\* ------------------------------------------------------------------------
\* Data-access layer (db/api): what each call reads, decides and writes
\* ------------------------------------------------------------------------
\* getProfile
ProfileRow ==
    [current_stage |-> current_stage, onboarding_completed |-> onboarding_completed, preferences |-> preferences]
\* getShortlistedUniversities: only the ids are used by the pages
ShortlistedIds == {row.university_id : row \in shortlist}
\* getLockedUniversities: .order('locked_at', { ascending: false })
LockedLatestFirst == Reverse(lockedRows)
\* getTasks: every due_date of the model is null, so created_at descending decides
TasksInDisplayOrder == Reverse(tasks)

\* a user_shortlisted_universities that has lost its UNIQUE constraint
ShortlistInsertUnchecked(u) == TRUE
\* UNIQUE(user_id, university_id) of user_shortlisted_universities
ShortlistInsertAllowed(u) == \A row \in shortlist : row.university_id # u
\* UNIQUE(user_id, university_id) of user_locked_universities
LockInsertAllowed(u) == u \notin Range(lockedRows)
\* removeFromShortlist, unlockUniversity: delete ... eq user_id, eq university_id
DeleteShortlisted(u) == {row \in shortlist : row.university_id # u}
DeleteLocked(u) == SelectSeq(lockedRows, LAMBDA x : x # u)

\* a completeOnboarding that writes the stage of the wizard
OnboardingWritesOnboarding == "onboarding"
\* completeOnboarding: the stage it writes
OnboardingStage == "exploring"
\* a lockUniversity that has lost its stage update
LockNeverUpdatesStage(stage) == FALSE
\* lockUniversity: "Update user stage to committed if not already"
LockNeedsStageUpdate(stage) == stage # "committed" /\ stage # "applying"
\* a lockUniversity that writes the stage of the application page
LockWritesApplying == "applying"
LockStage == "committed"
\* a handleAddToShortlist that has lost its test of the stage
AddAlwaysUpdatesStage(stage) == TRUE
\* handleAddToShortlist: "Update stage if needed"
AddNeedsStageUpdate(stage) == stage = "exploring"
AddStage == "shortlisting"

\* the request a step sends: the data-access function, its tables, whether it writes
Request(fn, tabs, writes) == [fn |-> fn, tables |-> tabs, mutation |-> writes]
Issued(r, q, more) ==
    IF q.mutation THEN Mutation(Trip(r, q.fn, q.tables, more)) ELSE Trip(r, q.fn, q.tables, more)

\* a page's loadData(): the requests of its Promise.all
LoadRequest(q) ==
    CASE q = "universities" -> Request("getUniversities", {"universities"}, FALSE)
      [] q = "shortlisted" -> Request("getShortlistedUniversities", {"user_shortlisted_universities", "universities"}, FALSE)
      [] q = "locked" -> Request("getLockedUniversities", {"user_locked_universities", "universities"}, FALSE)
      [] q = "tasks" -> Request("getTasks", {"tasks", "universities"}, FALSE)
Answer(got, q) ==
    CASE q = "universities" -> got
      [] q = "shortlisted" -> [got EXCEPT !.shortlisted = ShortlistedIds]
      [] q = "locked" -> [got EXCEPT !.locked = LockedLatestFirst]
      [] q = "tasks" -> [got EXCEPT !.tasks = TasksInDisplayOrder]

\* ------------------------------------------------------------------------
\* UniversitiesPage
\* ------------------------------------------------------------------------
isShortlisted(u) == u \in shortlisted
isLocked(u) == u \in locked
\* the cards are rendered after the first load; an open modal dialog covers them
CardsClickable == ~uniLoading /\ categoryDialog = 0 /\ unlockDialog = 0

UniLoadRequests == {"universities", "shortlisted", "locked"}

\* the page is on screen; React drops the state updates of a page that was left
UniMounted == route = "universities"

\* a click starts a handler; a second click overlaps the handler of the first
FreeSlot(h) ==
    /\ uh[h].pc = "idle"
    /\ h = "first" => uh["second"].pc = "idle"
    /\ h = "second" => uh["first"].pc # "idle"

\* updateUserStage(userId, stage) has changed the stage, or has written the stage it found
StageWritten(r, stage) == IF current_stage # stage THEN Wrote(r, "profiles") ELSE r

\* a handler starts; only handleAddToShortlist reads the profile it closed over
UniBegin(op, pc, u, c) ==
    [IdleHandler EXCEPT !.pc = pc, !.op = op, !.arg = u, !.cat = c,
                        !.prof = IF op = "handleAddToShortlist" THEN profile.current_stage ELSE "none"]
\* await loadData()
UniCallLoadData(r) ==
    [r EXCEPT !.pc = "loadData", !.refetch = @ + 1, !.pend = UniLoadRequests, !.got = NothingRead]
\* what follows "await loadData()" in each handler
UniAfterLoadData(r) ==
    LET s == [r EXCEPT !.pend = {}, !.got = NothingRead, !.call = NoCall] IN
    CASE r.op = "handleAddToShortlist" ->
             IF AddNeedsStageUpdate(r.prof) THEN [s EXCEPT !.pc = "updateUserStage"] ELSE Succeeded(s)
      [] r.op = "handleLock" -> [s EXCEPT !.pc = "refreshProfile"]
      [] r.op = "mount" -> [s EXCEPT !.pc = "done"]
      [] OTHER -> Succeeded(s)
\* setCategoryDialog / setUnlockDialog({ open: false, ... }) after the success toast
DialogsAfter(n) ==
    /\ categoryDialog' = IF n.pc = "done" /\ n.op = "handleAddToShortlist" THEN 0 ELSE categoryDialog
    /\ unlockDialog' = IF n.pc = "done" /\ n.op = "handleUnlock" THEN 0 ELSE unlockDialog

\* the request each awaiting step of a handler has sent
UniRequest(pc) ==
    CASE pc = "addToShortlist" -> Request("addToShortlist", {"user_shortlisted_universities"}, TRUE)
      [] pc = "updateUserStage" -> Request("updateUserStage", {"profiles"}, TRUE)
      [] pc = "removeFromShortlist" -> Request("removeFromShortlist", {"user_shortlisted_universities"}, TRUE)
      [] pc = "lockUniversity" -> Request("lockUniversity", {"user_locked_universities"}, TRUE)
      [] pc = "lockGetProfile" -> Request("lockUniversity", {"profiles"}, FALSE)
      [] pc = "lockUpdateUserStage" -> Request("lockUniversity", {"profiles"}, TRUE)
      [] pc = "unlockUniversity" -> Request("unlockUniversity", {"user_locked_universities"}, TRUE)
UniAwaiting == {"addToShortlist", "updateUserStage", "removeFromShortlist", "lockUniversity",
                "lockGetProfile", "lockUpdateUserStage", "unlockUniversity"}

\* useEffect(() => { loadData(); }, [user])
uniMountEffect(h) ==
    /\ UniMounted
    /\ FreeSlot(h)
    /\ uniLoading
    /\ uh' = [uh EXCEPT ![h] = UniCallLoadData(UniBegin("mount", "loadData", 0, "none"))]
    /\ UNCHANGED <<dbVars, profile, route, shortlisted, locked, categoryDialog, unlockDialog, uniLoading, appVars, onbVars, dashVars, chatVars>>

\* the requests of loadData's Promise.all that may be answered next: the universities
\* table never changes, so the moment of its answer is immaterial and it is taken first
UniAnswerable(pend) == IF "universities" \in pend THEN {"universities"} ELSE pend

\* one request of loadData's Promise.all is answered; the last answer sets the state
uniLoadData(h) ==
    /\ uh[h].pc = "loadData"
    /\ \E q \in UniAnswerable(uh[h].pend) :
         LET r == [Issued(uh[h], LoadRequest(q), FALSE) EXCEPT !.pend = @ \ {q}, !.got = Answer(@, q)] IN
         IF r.pend # {}
         THEN /\ uh' = [uh EXCEPT ![h] = r]
              /\ UNCHANGED <<shortlisted, locked, uniLoading, categoryDialog, unlockDialog>>
         ELSE /\ shortlisted' = IF UniMounted THEN r.got.shortlisted ELSE shortlisted
              /\ locked' = IF UniMounted THEN Range(r.got.locked) ELSE locked
              /\ uniLoading' = (uniLoading /\ ~UniMounted)
              /\ uh' = [uh EXCEPT ![h] = UniAfterLoadData(r)]
              /\ DialogsAfter(UniAfterLoadData(r))
    /\ UNCHANGED <<dbVars, profile, route, appVars, onbVars, dashVars, chatVars>>

\* a request of loadData throws: its catch shows 'Failed to load universities'
uniLoadDataFails(h) ==
    /\ uh[h].pc = "loadData"
    /\ \E q \in uh[h].pend :
         LET r == Toasted(Issued(uh[h], LoadRequest(q), FALSE)) IN
         /\ uh' = [uh EXCEPT ![h] = UniAfterLoadData(r)]
         /\ DialogsAfter(UniAfterLoadData(r))
    /\ uniLoading' = (uniLoading /\ ~UniMounted)
    /\ UNCHANGED <<dbVars, profile, route, shortlisted, locked, appVars, onbVars, dashVars, chatVars>>

\* "Add to Shortlist" of a card opens the category dialog
openCategoryDialog(u) ==
    /\ UniMounted
    /\ CardsClickable
    /\ ~isShortlisted(u) /\ ~isLocked(u)
    /\ categoryDialog' = u
    /\ UNCHANGED <<dbVars, profile, route, shortlisted, locked, unlockDialog, uniLoading, uh, appVars, onbVars, dashVars, chatVars>>

\* onOpenChange of a dialog (Escape, click outside, Cancel)
closeDialog ==
    /\ UniMounted
    /\ categoryDialog # 0 \/ unlockDialog # 0
    /\ categoryDialog' = 0
    /\ unlockDialog' = 0
    /\ UNCHANGED <<dbVars, profile, route, shortlisted, locked, uniLoading, uh, appVars, onbVars, dashVars, chatVars>>

\* a category button of the dialog: handleAddToShortlist(categoryDialog.university, c)
handleAddToShortlist(h, c) ==
    /\ UniMounted
    /\ FreeSlot(h)
    /\ categoryDialog # 0
    /\ uh' = [uh EXCEPT ![h] = UniBegin("handleAddToShortlist", "addToShortlist", categoryDialog, c)]
    /\ UNCHANGED <<dbVars, profile, route, shortlisted, locked, categoryDialog, unlockDialog, uniLoading, appVars, onbVars, dashVars, chatVars>>

\* await addToShortlist(user.id, university.id, category)
addToShortlist(h) ==
    /\ uh[h].pc = "addToShortlist"
    /\ LET r == Issued(uh[h], UniRequest("addToShortlist"), FALSE) IN
       IF ShortlistInsertAllowed(uh[h].arg)
       THEN /\ shortlist' = shortlist \cup {[university_id |-> uh[h].arg, category |-> uh[h].cat]}
            /\ uh' = [uh EXCEPT ![h] = UniCallLoadData(Wrote(r, "user_shortlisted_universities"))]
       ELSE /\ shortlist' = shortlist
            /\ uh' = [uh EXCEPT ![h] = Caught(r)]
    /\ UNCHANGED <<current_stage, onboarding_completed, lockedRows, tasks, chat_messages, refVars, profile, route,
                   shortlisted, locked, categoryDialog, unlockDialog, uniLoading, appVars, onbVars, dashVars, chatVars>>

\* await updateUserStage(user.id, 'shortlisting')
addUpdateUserStage(h) ==
    /\ uh[h].pc = "updateUserStage"
    /\ current_stage' = AddStage
    /\ uh' = [uh EXCEPT ![h] = [StageWritten(Issued(uh[h], UniRequest("updateUserStage"), FALSE), AddStage)
                                EXCEPT !.pc = "refreshProfile"]]
    /\ UNCHANGED <<onboarding_completed, shortlist, lockedRows, tasks, chat_messages, refVars, profile, route,
                   shortlisted, locked, categoryDialog, unlockDialog, uniLoading, appVars, onbVars, dashVars, chatVars>>

\* await refreshProfile(), then the success toast
uniRefreshProfile(h) ==
    /\ uh[h].pc = "refreshProfile"
    /\ profile' = ProfileRow
    /\ uh' = [uh EXCEPT ![h] = Succeeded(uh[h])]
    /\ DialogsAfter(Succeeded(uh[h]))
    /\ UNCHANGED <<dbVars, route, shortlisted, locked, uniLoading, appVars, onbVars, dashVars, chatVars>>

\* "Remove" of a card
handleRemoveFromShortlist(h, u) ==
    /\ UniMounted
    /\ FreeSlot(h)
    /\ CardsClickable
    /\ isShortlisted(u) /\ ~isLocked(u)
    /\ uh' = [uh EXCEPT ![h] = UniBegin("handleRemoveFromShortlist", "removeFromShortlist", u, "none")]
    /\ UNCHANGED <<dbVars, profile, route, shortlisted, locked, categoryDialog, unlockDialog, uniLoading, appVars, onbVars, dashVars, chatVars>>

\* await removeFromShortlist(user.id, universityId)
removeFromShortlist(h) ==
    /\ uh[h].pc = "removeFromShortlist"
    /\ shortlist' = DeleteShortlisted(uh[h].arg)
    /\ uh' = [uh EXCEPT ![h] = UniCallLoadData(Issued(uh[h], UniRequest("removeFromShortlist"), FALSE))]
    /\ UNCHANGED <<current_stage, onboarding_completed, lockedRows, tasks, chat_messages, refVars, profile, route,
                   shortlisted, locked, categoryDialog, unlockDialog, uniLoading, appVars, onbVars, dashVars, chatVars>>

\* "Lock Choice" of a card
handleLock(h, u) ==
    /\ UniMounted
    /\ FreeSlot(h)
    /\ CardsClickable
    /\ isShortlisted(u) /\ ~isLocked(u)
    /\ uh' = [uh EXCEPT ![h] = UniBegin("handleLock", "lockUniversity", u, "none")]
    /\ UNCHANGED <<dbVars, profile, route, shortlisted, locked, categoryDialog, unlockDialog, uniLoading, appVars, onbVars, dashVars, chatVars>>

\* lockUniversity: the insert into user_locked_universities
lockUniversity(h) ==
    /\ uh[h].pc = "lockUniversity"
    /\ IF LockInsertAllowed(uh[h].arg)
       THEN /\ lockedRows' = Append(lockedRows, uh[h].arg)
            /\ uh' = [uh EXCEPT ![h] = [Wrote(Issued(uh[h], UniRequest("lockUniversity"), TRUE),
                                              "user_locked_universities")
                                        EXCEPT !.pc = "lockGetProfile"]]
       ELSE /\ lockedRows' = lockedRows
            /\ uh' = [uh EXCEPT ![h] = Caught(Issued(uh[h], UniRequest("lockUniversity"), FALSE))]
    /\ UNCHANGED <<current_stage, onboarding_completed, shortlist, tasks, chat_messages, refVars, profile, route,
                   shortlisted, locked, categoryDialog, unlockDialog, uniLoading, appVars, onbVars, dashVars, chatVars>>

\* lockUniversity: const profile = await getProfile(userId), and the test on its stage
lockGetProfile(h) ==
    /\ uh[h].pc = "lockGetProfile"
    /\ IF LockNeedsStageUpdate(ProfileRow.current_stage)
       THEN uh' = [uh EXCEPT ![h] = [Issued(uh[h], UniRequest("lockGetProfile"), TRUE)
                                     EXCEPT !.pc = "lockUpdateUserStage"]]
       ELSE uh' = [uh EXCEPT ![h] = UniCallLoadData(Issued(uh[h], UniRequest("lockGetProfile"), FALSE))]
    /\ UNCHANGED <<dbVars, profile, route, shortlisted, locked, categoryDialog, unlockDialog, uniLoading, appVars, onbVars, dashVars, chatVars>>

\* lockUniversity: await updateUserStage(userId, 'committed')
lockUpdateUserStage(h) ==
    /\ uh[h].pc = "lockUpdateUserStage"
    /\ current_stage' = LockStage
    /\ uh' = [uh EXCEPT ![h] = UniCallLoadData(StageWritten(Issued(uh[h], UniRequest("lockUpdateUserStage"), FALSE),
                                                             LockStage))]
    /\ UNCHANGED <<onboarding_completed, shortlist, lockedRows, tasks, chat_messages, refVars, profile, route,
                   shortlisted, locked, categoryDialog, unlockDialog, uniLoading, appVars, onbVars, dashVars, chatVars>>

\* "Unlock" of a card opens the confirmation dialog
openUnlockDialog(u) ==
    /\ UniMounted
    /\ CardsClickable
    /\ isLocked(u)
    /\ unlockDialog' = u
    /\ UNCHANGED <<dbVars, profile, route, shortlisted, locked, categoryDialog, uniLoading, uh, appVars, onbVars, dashVars, chatVars>>

\* the dialog's "Unlock" action: it runs handleUnlock and closes the dialog
handleUnlock(h) ==
    /\ UniMounted
    /\ FreeSlot(h)
    /\ unlockDialog # 0
    /\ uh' = [uh EXCEPT ![h] = UniBegin("handleUnlock", "unlockUniversity", unlockDialog, "none")]
    /\ unlockDialog' = 0
    /\ UNCHANGED <<dbVars, profile, route, shortlisted, locked, categoryDialog, uniLoading, appVars, onbVars, dashVars, chatVars>>

\* await unlockUniversity(user.id, unlockDialog.universityId)
unlockUniversity(h) ==
    /\ uh[h].pc = "unlockUniversity"
    /\ lockedRows' = DeleteLocked(uh[h].arg)
    /\ uh' = [uh EXCEPT ![h] = UniCallLoadData(Issued(uh[h], UniRequest("unlockUniversity"), FALSE))]
    /\ UNCHANGED <<current_stage, onboarding_completed, shortlist, tasks, chat_messages, refVars, profile, route,
                   shortlisted, locked, categoryDialog, unlockDialog, uniLoading, appVars, onbVars, dashVars, chatVars>>

\* the awaited call of a handler throws (network or database error): the handler's catch
uniCallFails(h) ==
    /\ uh[h].pc \in UniAwaiting
    /\ uh' = [uh EXCEPT ![h] = Caught(Issued(uh[h], UniRequest(uh[h].pc), FALSE))]
    /\ UNCHANGED <<dbVars, profile, route, shortlisted, locked, categoryDialog, unlockDialog, uniLoading, appVars, onbVars, dashVars, chatVars>>

\* the handler has returned
uniHandlerReturns(h) ==
    /\ uh[h].pc = "done"
    /\ uh' = [uh EXCEPT ![h] = IdleHandler]
    /\ UNCHANGED <<dbVars, profile, route, shortlisted, locked, categoryDialog, unlockDialog, uniLoading, appVars, onbVars, dashVars, chatVars>>

\* ------------------------------------------------------------------------
\* ApplicationPage
\* ------------------------------------------------------------------------
\* generateDefaultTasks: the titles of defaultTasks
DefaultTasks == <<"Request Academic Transcripts", "Prepare Statement of Purpose",
                  "Request Letters of Recommendation", "Prepare Financial Documents",
                  "Complete Application Forms">>

\* gen_random_uuid(): an id no row of tasks has
NewTaskId == CHOOSE n \in 1..(Len(tasks) + 1) : \A k \in 1..Len(tasks) : tasks[k].id # n
\* createTask
NewTask(title, u) == [id |-> NewTaskId, title |-> title, university_id |-> u, completed |-> FALSE]
\* toggleTaskCompletion: update({ completed }).eq('id', taskId)
WithCompletion(id, completed) ==
    [k \in 1..Len(tasks) |-> IF tasks[k].id = id THEN [tasks[k] EXCEPT !.completed = completed] ELSE tasks[k]]
\* deleteTask: delete().eq('id', taskId)
WithoutTask(id) == SelectSeq(tasks, LAMBDA t : t.id # id)

\* loadData: "Update stage to applying if user has locked universities and tasks"
LoadNeedsStageUpdate(lockedList, stage) == Len(lockedList) > 0 /\ stage = "committed"
LoadStage == "applying"
\* loadData: "Generate default tasks if none exist and user has locked universities"
LoadGeneratesTasks(tasksList, lockedList) == Len(tasksList) = 0 /\ Len(lockedList) > 0

\* the rows of tasks the user created through the dialog
OwnTasks == Len(SelectSeq(tasks, LAMBDA t : t.title \notin Range(DefaultTasks)))

\* the task-management view is rendered below the "No Locked Universities" return
TaskViewShown == ~appLoading /\ Len(lockedUniversities) # 0
\* the task the user clicks: the one at the top of the list
ClickableTasks == IF Len(tasksState) = 0 THEN {} ELSE {tasksState[1]}

\* the page is on screen; React drops the state updates of a page that was left
AppMounted == route = "application"

AppLoadRequests == {"tasks", "locked"}
AppBegin(op, pc, a, f) ==
    [IdleHandler EXCEPT !.pc = pc, !.op = op, !.arg = a, !.flag = f, !.prof = profile.current_stage]
AppCallLoadData(r) ==
    [r EXCEPT !.pc = "loadData", !.refetch = @ + 1, !.pend = AppLoadRequests, !.got = NothingRead]
\* loadData() has returned to generateDefaultTasks (toast.success) or to the handler
AppLoadDataReturns(r) ==
    LET s == [r EXCEPT !.pend = {}, !.got = NothingRead, !.i = 0, !.gen = FALSE,
                       !.okToast = @ \/ r.gen] IN
    IF r.op = "mount" THEN [s EXCEPT !.pc = "done"] ELSE Succeeded(s)
\* loadData after its state updates and its stage update: the default tasks
AppAfterStage(r) ==
    IF LoadGeneratesTasks(r.got.tasks, r.got.locked)
    THEN [r EXCEPT !.pc = "generateDefaultTasks", !.i = 0]
    ELSE AppLoadDataReturns(r)
AppRequest(pc) ==
    CASE pc = "createTask" -> Request("createTask", {"tasks"}, TRUE)
      [] pc = "generateDefaultTasks" -> Request("createTask", {"tasks"}, TRUE)
      [] pc = "toggleTaskCompletion" -> Request("toggleTaskCompletion", {"tasks"}, TRUE)
      [] pc = "deleteTask" -> Request("deleteTask", {"tasks"}, TRUE)
      [] pc = "updateUserStage" -> Request("updateUserStage", {"profiles"}, TRUE)

\* useEffect(() => { loadData(); }, [user])
appMountEffect ==
    /\ AppMounted
    /\ ah.pc = "idle"
    /\ appLoading
    /\ ah' = AppCallLoadData(AppBegin("mount", "loadData", 0, FALSE))
    /\ UNCHANGED <<dbVars, profile, route, uniVars, tasksState, lockedUniversities, appLoading, onbVars, dashVars, chatVars>>

\* one request of loadData's Promise.all is answered; the last answer sets the state
appLoadData ==
    /\ ah.pc = "loadData"
    /\ \E q \in ah.pend :
         LET r == [Issued(ah, LoadRequest(q), FALSE) EXCEPT !.pend = @ \ {q}, !.got = Answer(@, q)] IN
         IF r.pend # {}
         THEN /\ ah' = r
              /\ UNCHANGED <<tasksState, lockedUniversities, appLoading>>
         ELSE /\ tasksState' = IF AppMounted THEN r.got.tasks ELSE tasksState
              /\ lockedUniversities' = IF AppMounted THEN r.got.locked ELSE lockedUniversities
              /\ IF LoadNeedsStageUpdate(r.got.locked, r.prof)
                 THEN /\ ah' = [r EXCEPT !.pc = "updateUserStage"]
                      /\ appLoading' = appLoading
                 ELSE /\ ah' = AppAfterStage(r)
                      /\ appLoading' = (appLoading /\ (AppAfterStage(r).pc = "generateDefaultTasks" \/ ~AppMounted))
    /\ UNCHANGED <<dbVars, profile, route, uniVars, onbVars, dashVars, chatVars>>

\* loadData: await updateUserStage(user.id, 'applying')
appUpdateUserStage ==
    /\ ah.pc = "updateUserStage"
    /\ current_stage' = LoadStage
    /\ ah' = [Issued(ah, AppRequest("updateUserStage"), FALSE) EXCEPT !.pc = "refreshProfile"]
    /\ UNCHANGED <<onboarding_completed, shortlist, lockedRows, tasks, chat_messages, refVars, profile, route,
                   uniVars, tasksState, lockedUniversities, appLoading, onbVars, dashVars, chatVars>>

\* loadData: await refreshProfile()
appRefreshProfile ==
    /\ ah.pc = "refreshProfile"
    /\ profile' = ProfileRow
    /\ ah' = AppAfterStage(ah)
    /\ appLoading' = (appLoading /\ (AppAfterStage(ah).pc = "generateDefaultTasks" \/ ~AppMounted))
    /\ UNCHANGED <<dbVars, route, uniVars, tasksState, lockedUniversities, onbVars, dashVars, chatVars>>

\* generateDefaultTasks: one await createTask(...) of its loop; after the last, await loadData()
generateDefaultTasks ==
    /\ ah.pc = "generateDefaultTasks"
    /\ tasks' = Append(tasks, NewTask(DefaultTasks[ah.i + 1], ah.got.locked[1]))
    /\ LET r == [Issued(ah, AppRequest("generateDefaultTasks"), FALSE) EXCEPT !.i = @ + 1] IN
       ah' = IF r.i = Len(DefaultTasks) THEN [AppCallLoadData(r) EXCEPT !.gen = TRUE] ELSE r
    /\ UNCHANGED <<current_stage, onboarding_completed, shortlist, lockedRows, chat_messages, refVars, profile, route,
                   uniVars, tasksState, lockedUniversities, appLoading, onbVars, dashVars, chatVars>>

\* generateDefaultTasks: a createTask throws; its catch logs to the console and returns
generateDefaultTasksFails ==
    /\ ah.pc = "generateDefaultTasks"
    /\ ah' = AppLoadDataReturns(Thrown(Issued(ah, AppRequest("generateDefaultTasks"), FALSE)))
    /\ appLoading' = (appLoading /\ ~AppMounted)
    /\ UNCHANGED <<dbVars, profile, route, uniVars, tasksState, lockedUniversities, onbVars, dashVars, chatVars>>

\* loadData: a request or the stage update throws: 'Failed to load application data'
appLoadDataFails ==
    /\ ah.pc \in {"loadData", "updateUserStage"}
    /\ \E q \in (IF ah.pc = "loadData" THEN ah.pend ELSE {"stage"}) :
         LET sent == IF q = "stage" THEN AppRequest("updateUserStage") ELSE LoadRequest(q) IN
         ah' = AppLoadDataReturns(Toasted(Issued(ah, sent, FALSE)))
    /\ appLoading' = (appLoading /\ ~AppMounted)
    /\ UNCHANGED <<dbVars, profile, route, uniVars, tasksState, lockedUniversities, onbVars, dashVars, chatVars>>

\* "Create Task" of the dialog: disabled without a title
handleCreateTask(u) ==
    /\ AppMounted
    /\ ah.pc = "idle"
    /\ TaskViewShown
    /\ u \in {0} \cup Range(lockedUniversities)
    /\ OwnTasks < MaxOwnTasks
    /\ ah' = AppBegin("handleCreateTask", "createTask", u, FALSE)
    /\ UNCHANGED <<dbVars, profile, route, uniVars, tasksState, lockedUniversities, appLoading, onbVars, dashVars, chatVars>>

\* await createTask(user.id, {...})
createTask ==
    /\ ah.pc = "createTask"
    /\ tasks' = Append(tasks, NewTask("custom", ah.arg))
    /\ ah' = AppCallLoadData(Issued(ah, AppRequest("createTask"), FALSE))
    /\ UNCHANGED <<current_stage, onboarding_completed, shortlist, lockedRows, chat_messages, refVars, profile, route,
                   uniVars, tasksState, lockedUniversities, appLoading, onbVars, dashVars, chatVars>>

\* the circle button of a task: handleToggleTask(task.id, task.completed)
handleToggleTask ==
    /\ AppMounted
    /\ ah.pc = "idle"
    /\ TaskViewShown
    /\ \E t \in ClickableTasks : ah' = AppBegin("handleToggleTask", "toggleTaskCompletion", t.id, t.completed)
    /\ UNCHANGED <<dbVars, profile, route, uniVars, tasksState, lockedUniversities, appLoading, onbVars, dashVars, chatVars>>

\* await toggleTaskCompletion(taskId, !completed)
toggleTaskCompletion ==
    /\ ah.pc = "toggleTaskCompletion"
    /\ tasks' = WithCompletion(ah.arg, ~ah.flag)
    /\ ah' = AppCallLoadData(Issued(ah, AppRequest("toggleTaskCompletion"), FALSE))
    /\ UNCHANGED <<current_stage, onboarding_completed, shortlist, lockedRows, chat_messages, refVars, profile, route,
                   uniVars, tasksState, lockedUniversities, appLoading, onbVars, dashVars, chatVars>>

\* "Delete" of a task
handleDeleteTask ==
    /\ AppMounted
    /\ ah.pc = "idle"
    /\ TaskViewShown
    /\ \E t \in ClickableTasks : ah' = AppBegin("handleDeleteTask", "deleteTask", t.id, FALSE)
    /\ UNCHANGED <<dbVars, profile, route, uniVars, tasksState, lockedUniversities, appLoading, onbVars, dashVars, chatVars>>

\* await deleteTask(taskId)
deleteTask ==
    /\ ah.pc = "deleteTask"
    /\ tasks' = WithoutTask(ah.arg)
    /\ ah' = AppCallLoadData(Issued(ah, AppRequest("deleteTask"), FALSE))
    /\ UNCHANGED <<current_stage, onboarding_completed, shortlist, lockedRows, chat_messages, refVars, profile, route,
                   uniVars, tasksState, lockedUniversities, appLoading, onbVars, dashVars, chatVars>>

\* the awaited call of a task handler throws: the handler's catch
appCallFails ==
    /\ ah.pc \in {"createTask", "toggleTaskCompletion", "deleteTask"}
    /\ ah' = Caught(Issued(ah, AppRequest(ah.pc), FALSE))
    /\ UNCHANGED <<dbVars, profile, route, uniVars, tasksState, lockedUniversities, appLoading, onbVars, dashVars, chatVars>>

appHandlerReturns ==
    /\ ah.pc = "done"
    /\ ah' = IdleHandler
    /\ UNCHANGED <<dbVars, profile, route, uniVars, tasksState, lockedUniversities, appLoading, onbVars, dashVars, chatVars>>

\* ------------------------------------------------------------------------
\* Router: one page is on screen; a page that mounts starts from its
\* useState initial values
\* ------------------------------------------------------------------------
Mount(p) ==
    /\ route' = p
    /\ shortlisted' = {}
    /\ locked' = {}
    /\ categoryDialog' = 0
    /\ unlockDialog' = 0
    /\ uniLoading' = TRUE
    /\ tasksState' = <<>>
    /\ lockedUniversities' = <<>>
    /\ appLoading' = TRUE
    /\ currentStep' = 1
    /\ formData' = BlankPreferences
    /\ dashboard' = BlankDashboard
    /\ messages' = <<>>
    /\ input' = <<>>
    /\ chatLoading' = FALSE
    /\ initialLoading' = TRUE

UniIdle == \A h \in DOMAIN uh : uh[h].pc = "idle"
AllIdle == /\ UniIdle
           /\ ah.pc = "idle" /\ ob.pc = "idle" /\ dh.pc = "idle"
           /\ lm.pc = "idle" /\ ch.pc = "idle"
\* no handler of an earlier visit of page p is still awaiting
PageIdle(p) ==
    CASE p = "universities" -> UniIdle
      [] p = "application" -> ah.pc = "idle"
      [] p = "onboarding" -> ob.pc = "idle"
      [] p = "dashboard" -> dh.pc = "idle"
      [] p = "counsellor" -> lm.pc = "idle" /\ ch.pc = "idle"

\* a link of the navigation bar, or the address bar
navigate(p) ==
    /\ PageIdle(p)
    /\ route # p
    /\ Mount(p)
    /\ UNCHANGED <<dbVars, profile, uh, ah, ob, dh, lm, ch, replies>>

\* ------------------------------------------------------------------------
\* OnboardingPage
\* ------------------------------------------------------------------------
OnbMounted == route = "onboarding"
\* a wizard with a fifth step
FiveSteps == <<"Personal Info", "Academic Background", "Study Goals", "Budget & Exams", "Review">>
STEPS == <<"Personal Info", "Academic Background", "Study Goals", "Budget & Exams">>
\* what the user may have typed into the form
Forms == {BlankPreferences, FilledPreferences}

\* updateField / toggleArrayItem
updateField(fd) ==
    /\ OnbMounted
    /\ ob.pc = "idle"
    /\ formData # fd
    /\ formData' = fd
    /\ UNCHANGED <<dbVars, profile, route, uniVars, appVars, currentStep, ob, dashVars, chatVars>>

\* "Next": rendered below the last step
handleNext ==
    /\ OnbMounted
    /\ currentStep < Len(STEPS)
    /\ currentStep' = currentStep + 1
    /\ UNCHANGED <<dbVars, profile, route, uniVars, appVars, formData, ob, dashVars, chatVars>>

\* "Back": disabled on the first step
handleBack ==
    /\ OnbMounted
    /\ currentStep > 1
    /\ currentStep' = currentStep - 1
    /\ UNCHANGED <<dbVars, profile, route, uniVars, appVars, formData, ob, dashVars, chatVars>>

\* "Complete Profile": rendered on the last step, disabled while loading
handleSubmit ==
    /\ OnbMounted
    /\ ob.pc = "idle"
    /\ currentStep = Len(STEPS)
    /\ ob' = [IdleHandler EXCEPT !.pc = "completeOnboarding", !.op = "handleSubmit"]
    /\ UNCHANGED <<dbVars, profile, route, uniVars, appVars, currentStep, formData, dashVars, chatVars>>

\* await completeOnboarding(user.id, formData)
completeOnboarding ==
    /\ ob.pc = "completeOnboarding"
    /\ preferences' = formData
    /\ current_stage' = OnboardingStage
    /\ onboarding_completed' = TRUE
    /\ ob' = [Issued(ob, Request("completeOnboarding", {"profiles"}, TRUE), FALSE) EXCEPT !.pc = "refreshProfile"]
    /\ UNCHANGED <<shortlist, lockedRows, tasks, chat_messages, universities, rls, tab, lm2, ch2, profile, route, uniVars, appVars,
                   currentStep, formData, dashVars, chatVars>>

\* completeOnboarding throws: 'Failed to complete onboarding'
completeOnboardingFails ==
    /\ ob.pc = "completeOnboarding"
    /\ ob' = Caught(Issued(ob, Request("completeOnboarding", {"profiles"}, TRUE), FALSE))
    /\ UNCHANGED <<dbVars, profile, route, uniVars, appVars, currentStep, formData, dashVars, chatVars>>

\* await refreshProfile(); toast.success(...); navigate('/dashboard')
submitRefreshProfile ==
    /\ ob.pc = "refreshProfile"
    /\ profile' = ProfileRow
    /\ ob' = Succeeded(ob)
    /\ Mount("dashboard")
    /\ UNCHANGED <<dbVars, uh, ah, dh, lm, ch, replies>>

submitReturns ==
    /\ ob.pc = "done"
    /\ ob' = IdleHandler
    /\ UNCHANGED <<dbVars, profile, route, uniVars, appVars, currentStep, formData, dashVars, chatVars>>

\* ------------------------------------------------------------------------
\* DashboardPage
\* ------------------------------------------------------------------------
DashLoadRequests == {"shortlisted", "locked", "tasks"}
Completed(list) == Len(SelectSeq(list, LAMBDA t : t.completed))

\* the render below the spinner: profile is there and loading is false
DashboardShown == route = "dashboard" /\ ~dashboard.loading
stages == <<"exploring", "shortlisting", "committed", "applying">>
\* Array.prototype.indexOf: the 0-based position of the first match, or -1
indexOf(list, x) ==
    IF \E i \in 1..Len(list) : list[i] = x
    THEN (CHOOSE i \in 1..Len(list) : list[i] = x /\ \A j \in 1..(i - 1) : list[j] # x) - 1
    ELSE -1
currentStageIndex(currentStage) == indexOf(stages, currentStage)
progress(currentStage) == ((currentStageIndex(currentStage) + 1) * 100) \div Len(stages)
\* the three tests of a journey step, index being the 0-based index of .map
isCompleted(currentStage, index) == currentStageIndex(currentStage) > index
isCurrent(currentStage, index) == stages[index + 1] = currentStage
\* a step that is also locked when it is the current one
isStepLockedOrCurrent(currentStage, index) == currentStageIndex(currentStage) <= index
\* isLocked of the page; the name isLocked is the one of the Universities page
isStepLocked(currentStage, index) == currentStageIndex(currentStage) < index
\* what a journey step shows: its icon, its badges, and whether its button is disabled
JourneyStep(currentStage, index) ==
    [stage |-> stages[index + 1],
     icon |-> IF isCompleted(currentStage, index) THEN "CheckCircle2"
              ELSE IF isCurrent(currentStage, index) THEN "Circle primary" ELSE "Circle muted",
     badges |-> (IF isCurrent(currentStage, index) THEN {"Current"} ELSE {})
                \cup (IF isCompleted(currentStage, index) THEN {"Completed"} ELSE {}),
     disabled |-> isStepLocked(currentStage, index)]

\* useEffect(..., [profile, navigate]): redirect, or loadData()
dashMountEffect ==
    /\ route = "dashboard"
    /\ dh.pc = "idle"
    /\ dashboard.loading
    /\ IF ~profile.onboarding_completed
       THEN /\ Mount("onboarding")
            /\ UNCHANGED <<dbVars, profile, uh, ah, ob, dh, lm, ch, replies>>
       ELSE /\ dh' = [IdleHandler EXCEPT !.pc = "loadData", !.op = "mount", !.refetch = 1,
                                         !.pend = DashLoadRequests]
            /\ UNCHANGED <<dbVars, profile, route, uniVars, appVars, onbVars, dashboard, chatVars>>

\* one request of loadData's Promise.all is answered; the last answer sets the counts
dashLoadData ==
    /\ dh.pc = "loadData"
    /\ \E q \in dh.pend :
         LET r == [Issued(dh, LoadRequest(q), FALSE) EXCEPT !.pend = @ \ {q}, !.got = Answer(@, q)] IN
         IF r.pend # {}
         THEN /\ dh' = r
              /\ UNCHANGED dashboard
         ELSE /\ dh' = [r EXCEPT !.pc = "done", !.got = NothingRead]
              /\ dashboard' = IF route = "dashboard"
                              THEN [shortlistCount |-> Cardinality(r.got.shortlisted),
                                    lockedCount |-> Len(r.got.locked),
                                    total |-> Len(r.got.tasks),
                                    completed |-> Completed(r.got.tasks),
                                    loading |-> FALSE]
                              ELSE dashboard
    /\ UNCHANGED <<dbVars, profile, route, uniVars, appVars, onbVars, chatVars>>

\* a request of loadData throws: its catch only logs to the console
dashLoadDataFails ==
    /\ dh.pc = "loadData"
    /\ \E q \in dh.pend :
         dh' = [Thrown(Issued(dh, LoadRequest(q), FALSE)) EXCEPT !.pc = "done", !.pend = {}, !.got = NothingRead]
    /\ dashboard' = IF route = "dashboard" THEN [dashboard EXCEPT !.loading = FALSE] ELSE dashboard
    /\ UNCHANGED <<dbVars, profile, route, uniVars, appVars, onbVars, chatVars>>

dashReturns ==
    /\ dh.pc = "done"
    /\ dh' = IdleHandler
    /\ UNCHANGED <<dbVars, profile, route, uniVars, appVars, onbVars, dashboard, chatVars>>

\* ------------------------------------------------------------------------
\* Spec: one browser tab; the user opens another page when nothing is
\* awaiting
\* ------------------------------------------------------------------------
Pages == {"onboarding", "dashboard", "universities", "application"}

Next ==
    \/ \E p \in Pages : AllIdle /\ navigate(p)
    \/ \E fd \in Forms : updateField(fd)
    \/ handleNext
    \/ handleBack
    \/ handleSubmit
    \/ completeOnboarding
    \/ completeOnboardingFails
    \/ submitRefreshProfile
    \/ submitReturns
    \/ dashMountEffect
    \/ dashLoadData
    \/ dashLoadDataFails
    \/ dashReturns
    \/ uniMountEffect("first")
    \/ uniLoadData("first")
    \/ uniLoadDataFails("first")
    \/ \E u \in Unis : openCategoryDialog(u)
    \/ closeDialog
    \/ handleAddToShortlist("first", "target")
    \/ addToShortlist("first")
    \/ addUpdateUserStage("first")
    \/ uniRefreshProfile("first")
    \/ \E u \in Unis : handleRemoveFromShortlist("first", u)
    \/ removeFromShortlist("first")
    \/ \E u \in Unis : handleLock("first", u)
    \/ lockUniversity("first")
    \/ lockGetProfile("first")
    \/ lockUpdateUserStage("first")
    \/ \E u \in Unis : openUnlockDialog(u)
    \/ handleUnlock("first")
    \/ unlockUniversity("first")
    \/ uniCallFails("first")
    \/ uniHandlerReturns("first")
    \/ appMountEffect
    \/ appLoadData
    \/ appUpdateUserStage
    \/ appRefreshProfile
    \/ generateDefaultTasks
    \/ generateDefaultTasksFails
    \/ appLoadDataFails
    \/ appHandlerReturns

Spec == Init /\ [][Next]_vars


\* ------------------------------------------------------------------------
\* SpecRace: the UniversitiesPage of a user who has completed onboarding;
\* a button is clicked while the handler of an earlier click is awaiting
\* ------------------------------------------------------------------------
Handlers == {"first", "second"}

InitRace ==
    /\ current_stage = OnboardingStage
    /\ onboarding_completed = TRUE
    /\ shortlist = {}
    /\ lockedRows = <<>>
    /\ tasks = <<>>
    /\ chat_messages = <<>>
    /\ preferences = FilledPreferences
    /\ universities = ListedUniversities
    /\ profile = [current_stage |-> OnboardingStage, onboarding_completed |-> TRUE, preferences |-> FilledPreferences]
    /\ route = "universities"
    /\ InitPages
    /\ rls = NoRequest
    /\ tab = NoTab
    /\ lm2 = IdleHandler
    /\ ch2 = IdleHandler

NextRace ==
    \/ uniMountEffect("first")
    \/ \E h \in Handlers :
         \/ uniLoadData(h)
         \/ handleAddToShortlist(h, "target")
         \/ addToShortlist(h)
         \/ addUpdateUserStage(h)
         \/ uniRefreshProfile(h)
         \/ \E u \in Unis : handleRemoveFromShortlist(h, u)
         \/ removeFromShortlist(h)
         \/ \E u \in Unis : handleLock(h, u)
         \/ lockUniversity(h)
         \/ lockGetProfile(h)
         \/ lockUpdateUserStage(h)
         \/ handleUnlock(h)
         \/ unlockUniversity(h)
         \/ uniHandlerReturns(h)
    \/ \E u \in Unis : openCategoryDialog(u)
    \/ closeDialog
    \/ \E u \in Unis : openUnlockDialog(u)

SpecRace == InitRace /\ [][NextRace]_vars

\* ------------------------------------------------------------------------
\* SpecLeave: the user opens another page while a handler of the Universities
\* page is still awaiting; the handler runs on after its page is left
\* ------------------------------------------------------------------------
NextLeave ==
    \/ \E p \in {"universities", "application"} : ah.pc = "idle" /\ dh.pc = "idle" /\ navigate(p)
    \/ uniMountEffect("first")
    \/ uniLoadData("first")
    \/ \E u \in Unis : openCategoryDialog(u)
    \/ handleAddToShortlist("first", "target")
    \/ addToShortlist("first")
    \/ addUpdateUserStage("first")
    \/ uniRefreshProfile("first")
    \/ \E u \in Unis : handleLock("first", u)
    \/ lockUniversity("first")
    \/ lockGetProfile("first")
    \/ lockUpdateUserStage("first")
    \/ \E u \in Unis : openUnlockDialog(u)
    \/ handleUnlock("first")
    \/ unlockUniversity("first")
    \/ uniHandlerReturns("first")
    \/ appMountEffect
    \/ appLoadData
    \/ appUpdateUserStage
    \/ appRefreshProfile
    \/ generateDefaultTasks
    \/ \E u \in {0} \cup Unis : handleCreateTask(u)
    \/ createTask
    \/ appHandlerReturns

SpecLeave == InitRace /\ [][NextLeave]_vars

\* ------------------------------------------------------------------------
\* SpecLocks: the user locks two shortlisted universities with two quick
\* clicks and opens the Application page while a lock is still awaiting
\* ------------------------------------------------------------------------
InitLocks ==
    /\ current_stage = AddStage
    /\ onboarding_completed = TRUE
    /\ shortlist = {[university_id |-> u, category |-> "target"] : u \in Unis}
    /\ lockedRows = <<>>
    /\ tasks = <<>>
    /\ chat_messages = <<>>
    /\ preferences = FilledPreferences
    /\ universities = ListedUniversities
    /\ profile = [current_stage |-> AddStage, onboarding_completed |-> TRUE, preferences |-> FilledPreferences]
    /\ route = "universities"
    /\ InitPages
    /\ rls = NoRequest
    /\ tab = NoTab
    /\ lm2 = IdleHandler
    /\ ch2 = IdleHandler

NextLocks ==
    \/ \E p \in {"universities", "application"} : ah.pc = "idle" /\ navigate(p)
    \/ uniMountEffect("first")
    \/ \E h \in Handlers : uniLoadData(h)
    \/ \E h \in Handlers, u \in Unis : handleLock(h, u)
    \/ \E h \in Handlers : lockUniversity(h)
    \/ \E h \in Handlers : lockGetProfile(h)
    \/ \E h \in Handlers : lockUpdateUserStage(h)
    \/ \E h \in Handlers : uniRefreshProfile(h)
    \/ \E h \in Handlers : uniHandlerReturns(h)
    \/ appMountEffect
    \/ appLoadData
    \/ appUpdateUserStage
    \/ appRefreshProfile
    \/ generateDefaultTasks
    \/ appHandlerReturns

SpecLocks == InitLocks /\ [][NextLocks]_vars
\* ------------------------------------------------------------------------
\* CounsellorPage: generateAIResponse
\* ------------------------------------------------------------------------
\* a message is the sequence of its characters
UpperCase == <<"A", "B", "C", "D", "E", "F", "G", "H", "I", "J", "K", "L", "M", "N", "O", "P", "Q", "R", "S", "T", "U", "V", "W", "X", "Y", "Z">>
LowerCase == <<"a", "b", "c", "d", "e", "f", "g", "h", "i", "j", "k", "l", "m", "n", "o", "p", "q", "r", "s", "t", "u", "v", "w", "x", "y", "z">>

\* a toLowerCase that leaves the message as typed
asTyped(s) == s
\* String.prototype.toLowerCase
toLowerCase(s) ==
    [k \in 1..Len(s) |-> IF \E n \in 1..Len(UpperCase) : UpperCase[n] = s[k]
                         THEN LowerCase[CHOOSE n \in 1..Len(UpperCase) : UpperCase[n] = s[k]]
                         ELSE s[k]]
\* String.prototype.includes
includes(s, w) == \E k \in 0..(Len(s) - Len(w)) : \A n \in 1..Len(w) : s[k + n] = w[n]
\* String.prototype.trim
WhiteSpace == {" ", "\n"}
trim(s) ==
    IF \A k \in 1..Len(s) : s[k] \in WhiteSpace THEN <<>>
    ELSE LET from == CHOOSE k \in 1..Len(s) : s[k] \notin WhiteSpace /\ \A n \in 1..(k - 1) : s[n] \in WhiteSpace
             to == CHOOSE k \in 1..Len(s) : s[k] \notin WhiteSpace /\ \A n \in (k + 1)..Len(s) : s[n] \in WhiteSpace
         IN SubSeq(s, from, to)
\* Array.prototype.slice(from, to) with 0 <= from <= to
slice(s, from, to) ==
    IF from >= Len(s) THEN <<>> ELSE SubSeq(s, from + 1, IF to < Len(s) THEN to ELSE Len(s))

\* the keywords of the five branches
RecommendationWords ==
    {<<"r", "e", "c", "o", "m", "m", "e", "n", "d">>,
     <<"s", "u", "g", "g", "e", "s", "t">>,
     <<"u", "n", "i", "v", "e", "r", "s", "i", "t", "y">>,
     <<"u", "n", "i", "v", "e", "r", "s", "i", "t", "i", "e", "s">>}
ProfileWords ==
    {<<"p", "r", "o", "f", "i", "l", "e">>,
     <<"c", "h", "a", "n", "c", "e", "s">>,
     <<"s", "t", "r", "e", "n", "g", "t", "h">>}
BudgetWords ==
    {<<"b", "u", "d", "g", "e", "t">>,
     <<"c", "o", "s", "t">>,
     <<"a", "f", "f", "o", "r", "d">>,
     <<"e", "x", "p", "e", "n", "s", "i", "v", "e">>}
TimelineWords ==
    {<<"t", "i", "m", "e", "l", "i", "n", "e">>,
     <<"w", "h", "e", "n">>,
     <<"d", "e", "a", "d", "l", "i", "n", "e">>}
NextStepsWords ==
    {<<"n", "e", "x", "t">>,
     <<"w", "h", "a", "t", " ", "s", "h", "o", "u", "l", "d">>,
     <<"h", "e", "l", "p">>}

matches(lowerMessage, words) == \E w \in words : includes(lowerMessage, w)

\* getUniversities(filters): the rows that pass the filters
passes(u, filters) ==
    /\ filters.countries # {} => universities[u].country \in filters.countries
    /\ filters.budgetMax # 0 => universities[u].tuition_fee_min <= filters.budgetMax
\* .order('ranking'): every order of the rows in which rankings ascend
RECURSIVE ordered(_)
ordered(ids) ==
    IF ids = {} THEN {<<>>}
    ELSE LET least == {u \in ids : \A v \in ids : universities[u].ranking <= universities[v].ranking} IN
         UNION {{<<u>> \o rest : rest \in ordered(ids \ {u})} : u \in least}
getUniversities(filters) == ordered({u \in DOMAIN universities : passes(u, filters)})
\* the filters generateAIResponse builds from the profile
RecommendationFilters(p) ==
    [countries |-> p.preferences.preferred_countries, budgetMax |-> p.preferences.budget_max]

\* a recommendation branch whose safe slice starts inside the target slice
RecommendationOverlapping(p, list) ==
    IF Len(list) = 0 THEN Template("no_match")
    ELSE [Template("recommendation") EXCEPT !.dream = slice(list, 0, 2), !.target = slice(list, 2, 5),
                                            !.safe = slice(list, 4, 8), !.gpa = p.preferences.gpa,
                                            !.budget_max = p.preferences.budget_max]
\* the recommendation branch after getUniversities has returned list
Recommendation(p, list) ==
    IF Len(list) = 0 THEN Template("no_match")
    ELSE [Template("recommendation") EXCEPT !.dream = slice(list, 0, 2), !.target = slice(list, 2, 5),
                                            !.safe = slice(list, 5, 8), !.gpa = p.preferences.gpa,
                                            !.budget_max = p.preferences.budget_max]
\* a recommendation test that has lost its toLowerCase
isRecommendationInCase(userMessage) == matches(userMessage, RecommendationWords)
isRecommendation(userMessage) == matches(toLowerCase(userMessage), RecommendationWords)
\* a generateAIResponse whose timeline test stands above its budget test
timelineBeforeBudget(userMessage, p) ==
    LET lowerMessage == toLowerCase(userMessage) IN
    IF matches(lowerMessage, ProfileWords)
    THEN [Template("profile_analysis") EXCEPT !.gpa = p.preferences.gpa]
    ELSE IF matches(lowerMessage, TimelineWords)
    THEN Template("timeline")
    ELSE IF matches(lowerMessage, BudgetWords)
    THEN [Template("budget") EXCEPT !.budget_max = p.preferences.budget_max]
    ELSE IF matches(lowerMessage, NextStepsWords) /\ p.current_stage \in {"exploring", "shortlisting", "committed"}
    THEN [Template("next_steps") EXCEPT !.stage = p.current_stage]
    ELSE Template("default")
\* the branches below the recommendation branch
generateAIResponse(userMessage, p) ==
    LET lowerMessage == toLowerCase(userMessage) IN
    IF matches(lowerMessage, ProfileWords)
    THEN [Template("profile_analysis") EXCEPT !.gpa = p.preferences.gpa]
    ELSE IF matches(lowerMessage, BudgetWords)
    THEN [Template("budget") EXCEPT !.budget_max = p.preferences.budget_max]
    ELSE IF matches(lowerMessage, TimelineWords)
    THEN Template("timeline")
    ELSE IF matches(lowerMessage, NextStepsWords) /\ p.current_stage \in {"exploring", "shortlisting", "committed"}
    THEN [Template("next_steps") EXCEPT !.stage = p.current_stage]
    ELSE Template("default")

\* ------------------------------------------------------------------------
\* CounsellorPage
\* ------------------------------------------------------------------------
ChatMounted == route = "counsellor"
\* createChatMessage(user.id, role, content)
ChatRow(role, text, reply) == [role |-> role, text |-> text, reply |-> reply]
ChatRequest(pc) ==
    CASE pc = "getChatMessages" -> Request("getChatMessages", {"chat_messages"}, FALSE)
      [] pc = "createWelcome" -> Request("createChatMessage", {"chat_messages"}, TRUE)
      [] pc = "createUserMessage" -> Request("createChatMessage", {"chat_messages"}, TRUE)
      [] pc = "aiGetProfile" -> Request("getProfile", {"profiles"}, FALSE)
      [] pc = "aiGetUniversities" -> Request("getUniversities", {"universities"}, FALSE)
      [] pc = "createAssistantMessage" -> Request("createChatMessage", {"chat_messages"}, TRUE)
\* what the user types into the textarea
Typed ==
    {<<"R", "e", "c", "o", "m", "m", "e", "n", "d">>,
     <<"n", "e", "x", "t", " ">>,
     <<"h", "i">>,
     <<" ", "\n">>}
\* the history of generateAIResponse: one entry per returned call
Returned(r, reply) ==
    [userMessage |-> r.text, profile |-> r.aiProfile, universities |-> universities, response |-> reply]

\* useEffect(() => { loadMessages(); }, [user, profile])
chatMountEffect ==
    /\ ChatMounted
    /\ lm.pc = "idle"
    /\ initialLoading
    /\ lm' = [IdleHandler EXCEPT !.pc = "getChatMessages", !.op = "loadMessages", !.refetch = 1]
    /\ UNCHANGED <<dbVars, profile, route, uniVars, appVars, onbVars, dashVars,
                   messages, input, chatLoading, initialLoading, ch, replies>>

\* loadMessages: const msgs = await getChatMessages(user.id); setMessages(msgs)
getChatMessages ==
    /\ lm.pc = "getChatMessages"
    /\ messages' = IF ChatMounted THEN chat_messages ELSE messages
    /\ LET r == Issued(lm, ChatRequest("getChatMessages"), FALSE) IN
       IF Len(chat_messages) = 0
       THEN /\ lm' = [r EXCEPT !.pc = "createWelcome"]
            /\ UNCHANGED initialLoading
       ELSE /\ lm' = [r EXCEPT !.pc = "done"]
            /\ initialLoading' = (initialLoading /\ ~ChatMounted)
    /\ UNCHANGED <<dbVars, profile, route, uniVars, appVars, onbVars, dashVars, input, chatLoading, ch, replies>>

\* loadMessages: the welcome message of an empty history
createWelcome ==
    /\ lm.pc = "createWelcome"
    /\ chat_messages' = Append(chat_messages, ChatRow("assistant", <<>>, Welcome))
    /\ messages' = IF ChatMounted THEN <<ChatRow("assistant", <<>>, Welcome)>> ELSE messages
    /\ initialLoading' = (initialLoading /\ ~ChatMounted)
    /\ lm' = [Issued(lm, ChatRequest("createWelcome"), FALSE) EXCEPT !.pc = "done"]
    /\ UNCHANGED <<current_stage, onboarding_completed, shortlist, lockedRows, tasks, refVars, profile, route,
                   uniVars, appVars, onbVars, dashVars, input, chatLoading, ch, replies>>

\* loadMessages: a call throws; its catch only logs to the console
loadMessagesFails ==
    /\ lm.pc \in {"getChatMessages", "createWelcome"}
    /\ lm' = [Thrown(Issued(lm, ChatRequest(lm.pc), FALSE)) EXCEPT !.pc = "done"]
    /\ initialLoading' = (initialLoading /\ ~ChatMounted)
    /\ UNCHANGED <<dbVars, profile, route, uniVars, appVars, onbVars, dashVars,
                   messages, input, chatLoading, ch, replies>>

loadMessagesReturns ==
    /\ lm.pc = "done"
    /\ lm' = IdleHandler
    /\ UNCHANGED <<dbVars, profile, route, uniVars, appVars, onbVars, dashVars,
                   messages, input, chatLoading, initialLoading, ch, replies>>

\* onChange of the textarea, which is disabled while loading
setInput(m) ==
    /\ ChatMounted
    /\ ~initialLoading /\ ~chatLoading
    /\ input # m
    /\ input' = m
    /\ UNCHANGED <<dbVars, profile, route, uniVars, appVars, onbVars, dashVars,
                   messages, chatLoading, initialLoading, lm, ch, replies>>

\* the send button, or Enter in the textarea; a blank input returns at once
handleSend ==
    /\ ChatMounted
    /\ ~initialLoading /\ ~chatLoading
    /\ ch.pc = "idle"
    /\ Len(chat_messages) + 2 <= MaxChat
    /\ IF trim(input) = <<>>
       THEN UNCHANGED <<input, chatLoading, ch>>
       ELSE /\ input' = <<>>
            /\ chatLoading' = TRUE
            /\ ch' = [IdleHandler EXCEPT !.pc = "createUserMessage", !.op = "handleSend", !.text = trim(input)]
    /\ UNCHANGED <<dbVars, profile, route, uniVars, appVars, onbVars, dashVars,
                   messages, initialLoading, lm, replies>>

\* const userMsg = await createChatMessage(user.id, 'user', userMessage)
createUserMessage ==
    /\ ch.pc = "createUserMessage"
    /\ chat_messages' = Append(chat_messages, ChatRow("user", ch.text, NoReply))
    /\ messages' = IF ChatMounted THEN Append(messages, ChatRow("user", ch.text, NoReply)) ELSE messages
    /\ ch' = [Issued(ch, ChatRequest("createUserMessage"), FALSE) EXCEPT !.pc = "aiGetProfile"]
    /\ UNCHANGED <<current_stage, onboarding_completed, shortlist, lockedRows, tasks, refVars, profile, route,
                   uniVars, appVars, onbVars, dashVars, input, chatLoading, initialLoading, lm, replies>>

\* generateAIResponse: const profile = await getProfile(userId); the branches
\* below the recommendation branch return without another call
aiGetProfile ==
    /\ ch.pc = "aiGetProfile"
    /\ LET r == [Issued(ch, ChatRequest("aiGetProfile"), FALSE)
                   EXCEPT !.aiProfile = ProfileRow, !.aiReads = @ \cup {"profiles"}] IN
       IF isRecommendation(r.text)
       THEN /\ ch' = [r EXCEPT !.pc = "aiGetUniversities"]
            /\ UNCHANGED replies
       ELSE /\ ch' = [r EXCEPT !.pc = "createAssistantMessage",
                               !.reply = generateAIResponse(r.text, ProfileRow)]
            /\ replies' = replies \cup {Returned(r, generateAIResponse(r.text, ProfileRow))}
    /\ UNCHANGED <<dbVars, profile, route, uniVars, appVars, onbVars, dashVars,
                   messages, input, chatLoading, initialLoading, lm>>

\* generateAIResponse: const universities = await getUniversities({...})
aiGetUniversities ==
    /\ ch.pc = "aiGetUniversities"
    /\ \E list \in getUniversities(RecommendationFilters(ch.aiProfile)) :
         LET r == [Issued(ch, ChatRequest("aiGetUniversities"), FALSE) EXCEPT !.aiReads = @ \cup {"universities"}] IN
         /\ ch' = [r EXCEPT !.pc = "createAssistantMessage", !.reply = Recommendation(r.aiProfile, list)]
         /\ replies' = replies \cup {Returned(r, Recommendation(r.aiProfile, list))}
    /\ UNCHANGED <<dbVars, profile, route, uniVars, appVars, onbVars, dashVars,
                   messages, input, chatLoading, initialLoading, lm>>

\* const aiMsg = await createChatMessage(user.id, 'assistant', aiResponse); finally setLoading(false)
createAssistantMessage ==
    /\ ch.pc = "createAssistantMessage"
    /\ chat_messages' = Append(chat_messages, ChatRow("assistant", <<>>, ch.reply))
    /\ messages' = IF ChatMounted THEN Append(messages, ChatRow("assistant", <<>>, ch.reply)) ELSE messages
    /\ chatLoading' = (chatLoading /\ ~ChatMounted)
    /\ ch' = [Issued(ch, ChatRequest("createAssistantMessage"), FALSE) EXCEPT !.pc = "done"]
    /\ UNCHANGED <<current_stage, onboarding_completed, shortlist, lockedRows, tasks, refVars, profile, route,
                   uniVars, appVars, onbVars, dashVars, input, initialLoading, lm, replies>>

\* an awaited call of handleSend throws: 'Failed to send message'; finally setLoading(false)
handleSendFails ==
    /\ ch.pc \in {"createUserMessage", "aiGetProfile", "aiGetUniversities", "createAssistantMessage"}
    /\ ch' = Caught(Issued(ch, ChatRequest(ch.pc), FALSE))
    /\ chatLoading' = (chatLoading /\ ~ChatMounted)
    /\ UNCHANGED <<dbVars, profile, route, uniVars, appVars, onbVars, dashVars,
                   messages, input, initialLoading, lm, replies>>

handleSendReturns ==
    /\ ch.pc = "done"
    /\ ch' = IdleHandler
    /\ UNCHANGED <<dbVars, profile, route, uniVars, appVars, onbVars, dashVars,
                   messages, input, chatLoading, initialLoading, lm, replies>>

\* ------------------------------------------------------------------------
\* SpecPages: every page with all its handlers and every failing call, from
\* the states in which the user opens it
\* ------------------------------------------------------------------------
\* the user has completed onboarding and nothing else
Explorer ==
    /\ current_stage = OnboardingStage
    /\ onboarding_completed = TRUE
    /\ shortlist = {}
    /\ lockedRows = <<>>
    /\ tasks = <<>>
\* the user has shortlisted and locked a university
Committed ==
    /\ current_stage = LockStage
    /\ onboarding_completed = TRUE
    /\ shortlist = {[university_id |-> 1, category |-> "target"]}
    /\ lockedRows = <<1>>
    /\ tasks = <<>>
\* two rows of the universities table share a ranking
TiedUniversities == [u \in Unis |-> [ranking |-> 1, country |-> "USA", tuition_fee_min |-> 1]]

AllPages == {"onboarding", "dashboard", "universities", "application", "counsellor"}

InitOnPage ==
    /\ Explorer \/ Committed
    /\ chat_messages = <<>>
    /\ preferences = FilledPreferences
    /\ universities \in {ListedUniversities, TiedUniversities}
    /\ route \in AllPages
    /\ route # "counsellor" => universities = ListedUniversities
    /\ route = "application" => lockedRows # <<>>
    /\ route \in {"onboarding", "universities"} => lockedRows = <<>>
    /\ profile = [current_stage |-> current_stage, onboarding_completed |-> onboarding_completed,
                  preferences |-> preferences]
    /\ InitPages
    /\ rls = NoRequest
    /\ tab = NoTab
    /\ lm2 = IdleHandler
    /\ ch2 = IdleHandler

NextOnPage ==
    \/ \E fd \in Forms : updateField(fd)
    \/ handleNext
    \/ handleBack
    \/ handleSubmit
    \/ completeOnboarding
    \/ completeOnboardingFails
    \/ submitRefreshProfile
    \/ submitReturns
    \/ dashMountEffect
    \/ dashLoadData
    \/ dashLoadDataFails
    \/ dashReturns
    \/ uniMountEffect("first")
    \/ uniLoadData("first")
    \/ uniLoadDataFails("first")
    \/ \E u \in Unis : openCategoryDialog(u)
    \/ closeDialog
    \/ \E c \in UniversityCategory : handleAddToShortlist("first", c)
    \/ addToShortlist("first")
    \/ addUpdateUserStage("first")
    \/ uniRefreshProfile("first")
    \/ \E u \in Unis : handleRemoveFromShortlist("first", u)
    \/ removeFromShortlist("first")
    \/ \E u \in Unis : handleLock("first", u)
    \/ lockUniversity("first")
    \/ lockGetProfile("first")
    \/ lockUpdateUserStage("first")
    \/ \E u \in Unis : openUnlockDialog(u)
    \/ handleUnlock("first")
    \/ unlockUniversity("first")
    \/ uniCallFails("first")
    \/ uniHandlerReturns("first")
    \/ appMountEffect
    \/ appLoadData
    \/ appUpdateUserStage
    \/ appRefreshProfile
    \/ generateDefaultTasks
    \/ generateDefaultTasksFails
    \/ appLoadDataFails
    \/ appHandlerReturns
    \/ \E u \in {0} \cup Unis : handleCreateTask(u)
    \/ createTask
    \/ handleToggleTask
    \/ toggleTaskCompletion
    \/ handleDeleteTask
    \/ deleteTask
    \/ appCallFails
    \/ chatMountEffect
    \/ getChatMessages
    \/ createWelcome
    \/ loadMessagesFails
    \/ loadMessagesReturns
    \/ \E m \in Typed : setInput(m)
    \/ handleSend
    \/ createUserMessage
    \/ aiGetProfile
    \/ aiGetUniversities
    \/ createAssistantMessage
    \/ handleSendFails
    \/ handleSendReturns

SpecPages == InitOnPage /\ [][NextOnPage]_vars


\* ------------------------------------------------------------------------
\* SpecTabs: the Application page is open in two browser tabs of the same
\* user; both mount effects load, and their awaited calls interleave
\* ------------------------------------------------------------------------
\* the second tab's useEffect(() => { loadData(); }, [user]); its AuthContext
\* has fetched the profile when the tab was opened
tabMountEffect ==
    /\ tab.open /\ tab.loading /\ tab.h.pc = "idle"
    /\ tab' = [tab EXCEPT !.h = AppCallLoadData([IdleHandler EXCEPT !.op = "mount",
                                                                     !.prof = ProfileRow.current_stage])]
    /\ UNCHANGED <<current_stage, onboarding_completed, shortlist, lockedRows, tasks, chat_messages,
                   preferences, universities, rls, lm2, ch2, profile, route, uniVars, appVars, onbVars, dashVars, chatVars>>

\* the second tab's loadData: one request of its Promise.all is answered
tabLoadData ==
    /\ tab.h.pc = "loadData"
    /\ \E q \in tab.h.pend :
         LET r == [Issued(tab.h, LoadRequest(q), FALSE) EXCEPT !.pend = @ \ {q}, !.got = Answer(@, q)] IN
         tab' = IF r.pend # {}
                THEN [tab EXCEPT !.h = r]
                ELSE [tab EXCEPT !.tasks = r.got.tasks,
                                 !.lockedUniversities = r.got.locked,
                                 !.h = IF LoadNeedsStageUpdate(r.got.locked, r.prof)
                                       THEN [r EXCEPT !.pc = "updateUserStage"]
                                       ELSE AppAfterStage(r),
                                 !.loading = IF LoadNeedsStageUpdate(r.got.locked, r.prof)
                                             THEN @
                                             ELSE @ /\ AppAfterStage(r).pc = "generateDefaultTasks"]
    /\ UNCHANGED <<current_stage, onboarding_completed, shortlist, lockedRows, tasks, chat_messages,
                   preferences, universities, rls, lm2, ch2, profile, route, uniVars, appVars, onbVars, dashVars, chatVars>>

\* the second tab's loadData: await updateUserStage(user.id, 'applying'); await refreshProfile()
tabUpdateUserStage ==
    /\ tab.h.pc = "updateUserStage"
    /\ current_stage' = LoadStage
    /\ LET r == AppAfterStage(Issued(tab.h, AppRequest("updateUserStage"), FALSE)) IN
       tab' = [tab EXCEPT !.h = r, !.loading = @ /\ r.pc = "generateDefaultTasks"]
    /\ UNCHANGED <<onboarding_completed, shortlist, lockedRows, tasks, chat_messages,
                   preferences, universities, rls, lm2, ch2, profile, route, uniVars, appVars, onbVars, dashVars, chatVars>>

\* the second tab's generateDefaultTasks: one await createTask(...) of its loop
tabGenerateDefaultTasks ==
    /\ tab.h.pc = "generateDefaultTasks"
    /\ tasks' = Append(tasks, NewTask(DefaultTasks[tab.h.i + 1], tab.h.got.locked[1]))
    /\ LET r == [Issued(tab.h, AppRequest("generateDefaultTasks"), FALSE) EXCEPT !.i = @ + 1] IN
       tab' = [tab EXCEPT !.h = IF r.i = Len(DefaultTasks) THEN [AppCallLoadData(r) EXCEPT !.gen = TRUE] ELSE r]
    /\ UNCHANGED <<current_stage, onboarding_completed, shortlist, lockedRows, chat_messages,
                   preferences, universities, rls, lm2, ch2, profile, route, uniVars, appVars, onbVars, dashVars, chatVars>>

\* the second tab's load has returned
tabReturns ==
    /\ tab.h.pc = "done"
    /\ tab' = [tab EXCEPT !.h = IdleHandler]
    /\ UNCHANGED <<current_stage, onboarding_completed, shortlist, lockedRows, tasks, chat_messages,
                   preferences, universities, rls, lm2, ch2, profile, route, uniVars, appVars, onbVars, dashVars, chatVars>>

InitTabs ==
    /\ Committed
    /\ chat_messages = <<>>
    /\ preferences = FilledPreferences
    /\ universities = ListedUniversities
    /\ profile = [current_stage |-> current_stage, onboarding_completed |-> onboarding_completed,
                  preferences |-> preferences]
    /\ route = "application"
    /\ InitPages
    /\ rls = NoRequest
    /\ tab = [NoTab EXCEPT !.open = TRUE]
    /\ lm2 = IdleHandler
    /\ ch2 = IdleHandler

NextTabs ==
    \/ appMountEffect
    \/ appLoadData
    \/ appUpdateUserStage
    \/ appRefreshProfile
    \/ generateDefaultTasks
    \/ appHandlerReturns
    \/ tabMountEffect
    \/ tabLoadData
    \/ tabUpdateUserStage
    \/ tabGenerateDefaultTasks
    \/ tabReturns

SpecTabs == InitTabs /\ [][NextTabs]_vars

\* ------------------------------------------------------------------------
\* SpecReload: the Counsellor page of a user without messages; AuthContext
\* hands over the profile after the user, so the load effect, whose
\* dependencies are [user, profile], runs a second time; the effect has no
\* cleanup, and the first loadMessages goes on
\* ------------------------------------------------------------------------
chatEffectAgain ==
    /\ ChatMounted
    /\ lm.pc # "idle"
    /\ lm2.pc = "idle"
    /\ lm2' = [IdleHandler EXCEPT !.pc = "getChatMessages", !.op = "loadMessages", !.refetch = 1]
    /\ UNCHANGED <<current_stage, onboarding_completed, shortlist, lockedRows, tasks, chat_messages,
                   preferences, universities, rls, tab, ch2, profile, route, uniVars, appVars, onbVars, dashVars, chatVars>>

\* the second run's const msgs = await getChatMessages(user.id); setMessages(msgs)
getChatMessagesAgain ==
    /\ lm2.pc = "getChatMessages"
    /\ messages' = IF ChatMounted THEN chat_messages ELSE messages
    /\ LET r == Issued(lm2, ChatRequest("getChatMessages"), FALSE) IN
       IF Len(chat_messages) = 0
       THEN /\ lm2' = [r EXCEPT !.pc = "createWelcome"]
            /\ UNCHANGED initialLoading
       ELSE /\ lm2' = [r EXCEPT !.pc = "done"]
            /\ initialLoading' = (initialLoading /\ ~ChatMounted)
    /\ UNCHANGED <<current_stage, onboarding_completed, shortlist, lockedRows, tasks, chat_messages,
                   preferences, universities, rls, tab, ch2, profile, route, uniVars, appVars, onbVars, dashVars,
                   input, chatLoading, lm, ch, replies>>

\* the second run's welcome message of an empty history
createWelcomeAgain ==
    /\ lm2.pc = "createWelcome"
    /\ chat_messages' = Append(chat_messages, ChatRow("assistant", <<>>, Welcome))
    /\ messages' = IF ChatMounted THEN <<ChatRow("assistant", <<>>, Welcome)>> ELSE messages
    /\ initialLoading' = (initialLoading /\ ~ChatMounted)
    /\ lm2' = [Issued(lm2, ChatRequest("createWelcome"), FALSE) EXCEPT !.pc = "done"]
    /\ UNCHANGED <<current_stage, onboarding_completed, shortlist, lockedRows, tasks,
                   preferences, universities, rls, tab, ch2, profile, route, uniVars, appVars, onbVars, dashVars,
                   input, chatLoading, lm, ch, replies>>

\* the second run has returned
loadMessagesAgainReturns ==
    /\ lm2.pc = "done"
    /\ lm2' = IdleHandler
    /\ UNCHANGED <<current_stage, onboarding_completed, shortlist, lockedRows, tasks, chat_messages,
                   preferences, universities, rls, tab, ch2, profile, route, uniVars, appVars, onbVars, dashVars, chatVars>>

InitReload ==
    /\ Explorer
    /\ chat_messages = <<>>
    /\ preferences = FilledPreferences
    /\ universities = ListedUniversities
    /\ profile = [current_stage |-> current_stage, onboarding_completed |-> onboarding_completed,
                  preferences |-> preferences]
    /\ route = "counsellor"
    /\ InitPages
    /\ rls = NoRequest
    /\ tab = NoTab
    /\ lm2 = IdleHandler
    /\ ch2 = IdleHandler

NextReload ==
    \/ chatMountEffect
    \/ getChatMessages
    \/ createWelcome
    \/ loadMessagesReturns
    \/ chatEffectAgain
    \/ getChatMessagesAgain
    \/ createWelcomeAgain
    \/ loadMessagesAgainReturns
    \/ \E m \in Typed : setInput(m)
    \/ handleSend
    \/ createUserMessage
    \/ aiGetProfile
    \/ aiGetUniversities
    \/ createAssistantMessage
    \/ handleSendReturns

SpecReload == InitReload /\ [][NextReload]_vars

\* ------------------------------------------------------------------------
\* SpecReturn: the user leaves the Counsellor page while handleSend is
\* awaiting and comes back; the handler of the unmounted page goes on, its
\* state setters no longer reach a mounted component, and the page mounted
\* anew starts from its useState values
\* ------------------------------------------------------------------------
SendAwaiting == {"createUserMessage", "aiGetProfile", "aiGetUniversities", "createAssistantMessage"}

\* a link of the navigation bar while handleSend is awaiting
leaveWhileSending ==
    /\ ChatMounted
    /\ lm.pc = "idle"
    /\ ch.pc \in SendAwaiting
    /\ ch2.pc = "idle"
    /\ Mount("dashboard")
    /\ ch2' = ch
    /\ ch' = IdleHandler
    /\ UNCHANGED <<current_stage, onboarding_completed, shortlist, lockedRows, tasks, chat_messages,
                   preferences, universities, rls, tab, lm2, profile, uh, ah, ob, dh, lm, replies>>

\* the unmounted page's await createChatMessage(user.id, 'user', userMessage)
formerCreateUserMessage ==
    /\ ch2.pc = "createUserMessage"
    /\ chat_messages' = Append(chat_messages, ChatRow("user", ch2.text, NoReply))
    /\ ch2' = [Issued(ch2, ChatRequest("createUserMessage"), FALSE) EXCEPT !.pc = "aiGetProfile"]
    /\ UNCHANGED <<current_stage, onboarding_completed, shortlist, lockedRows, tasks,
                   preferences, universities, rls, tab, lm2, profile, route,
                   uniVars, appVars, onbVars, dashVars, chatVars>>

\* the unmounted page's generateAIResponse: getProfile
formerAiGetProfile ==
    /\ ch2.pc = "aiGetProfile"
    /\ LET r == [Issued(ch2, ChatRequest("aiGetProfile"), FALSE)
                   EXCEPT !.aiProfile = ProfileRow, !.aiReads = @ \cup {"profiles"}] IN
       IF isRecommendation(r.text)
       THEN /\ ch2' = [r EXCEPT !.pc = "aiGetUniversities"]
            /\ UNCHANGED replies
       ELSE /\ ch2' = [r EXCEPT !.pc = "createAssistantMessage",
                                !.reply = generateAIResponse(r.text, ProfileRow)]
            /\ replies' = replies \cup {Returned(r, generateAIResponse(r.text, ProfileRow))}
    /\ UNCHANGED <<current_stage, onboarding_completed, shortlist, lockedRows, tasks, chat_messages,
                   preferences, universities, rls, tab, lm2, profile, route,
                   uniVars, appVars, onbVars, dashVars, messages, input, chatLoading, initialLoading, lm, ch>>

\* the unmounted page's generateAIResponse: getUniversities
formerAiGetUniversities ==
    /\ ch2.pc = "aiGetUniversities"
    /\ \E list \in getUniversities(RecommendationFilters(ch2.aiProfile)) :
         LET r == [Issued(ch2, ChatRequest("aiGetUniversities"), FALSE) EXCEPT !.aiReads = @ \cup {"universities"}] IN
         /\ ch2' = [r EXCEPT !.pc = "createAssistantMessage", !.reply = Recommendation(r.aiProfile, list)]
         /\ replies' = replies \cup {Returned(r, Recommendation(r.aiProfile, list))}
    /\ UNCHANGED <<current_stage, onboarding_completed, shortlist, lockedRows, tasks, chat_messages,
                   preferences, universities, rls, tab, lm2, profile, route,
                   uniVars, appVars, onbVars, dashVars, messages, input, chatLoading, initialLoading, lm, ch>>

\* the unmounted page's await createChatMessage(user.id, 'assistant', aiResponse)
formerCreateAssistantMessage ==
    /\ ch2.pc = "createAssistantMessage"
    /\ chat_messages' = Append(chat_messages, ChatRow("assistant", <<>>, ch2.reply))
    /\ ch2' = [Issued(ch2, ChatRequest("createAssistantMessage"), FALSE) EXCEPT !.pc = "done"]
    /\ UNCHANGED <<current_stage, onboarding_completed, shortlist, lockedRows, tasks,
                   preferences, universities, rls, tab, lm2, profile, route,
                   uniVars, appVars, onbVars, dashVars, chatVars>>

formerSendReturns ==
    /\ ch2.pc = "done"
    /\ ch2' = IdleHandler
    /\ UNCHANGED <<current_stage, onboarding_completed, shortlist, lockedRows, tasks, chat_messages,
                   preferences, universities, rls, tab, lm2, profile, route,
                   uniVars, appVars, onbVars, dashVars, chatVars>>

InitReturn ==
    /\ Explorer
    /\ chat_messages = <<>>
    /\ preferences = FilledPreferences
    /\ universities = ListedUniversities
    /\ profile = [current_stage |-> current_stage, onboarding_completed |-> onboarding_completed,
                  preferences |-> preferences]
    /\ route = "counsellor"
    /\ InitPages
    /\ rls = NoRequest
    /\ tab = NoTab
    /\ lm2 = IdleHandler
    /\ ch2 = IdleHandler

NextReturn ==
    \/ chatMountEffect
    \/ getChatMessages
    \/ createWelcome
    \/ loadMessagesReturns
    \/ \E m \in Typed : setInput(m)
    \/ handleSend
    \/ createUserMessage
    \/ aiGetProfile
    \/ aiGetUniversities
    \/ createAssistantMessage
    \/ handleSendReturns
    \/ leaveWhileSending
    \/ navigate("counsellor")
    \/ formerCreateUserMessage
    \/ formerAiGetProfile
    \/ formerAiGetUniversities
    \/ formerCreateAssistantMessage
    \/ formerSendReturns

SpecReturn == InitReturn /\ [][NextReturn]_vars
\* ------------------------------------------------------------------------
\* SpecAI: one message sent to the counsellor, for every message of up to
\* MaxWords words, every stage and three universities tables
\* ------------------------------------------------------------------------
\* the keywords, and words that are none
Words ==
    {<<"r", "e", "c", "o", "m", "m", "e", "n", "d">>,
     <<"s", "u", "g", "g", "e", "s", "t">>,
     <<"u", "n", "i", "v", "e", "r", "s", "i", "t", "y">>,
     <<"u", "n", "i", "v", "e", "r", "s", "i", "t", "i", "e", "s">>,
     <<"p", "r", "o", "f", "i", "l", "e">>,
     <<"c", "h", "a", "n", "c", "e", "s">>,
     <<"s", "t", "r", "e", "n", "g", "t", "h">>,
     <<"b", "u", "d", "g", "e", "t">>,
     <<"c", "o", "s", "t">>,
     <<"a", "f", "f", "o", "r", "d">>,
     <<"e", "x", "p", "e", "n", "s", "i", "v", "e">>,
     <<"t", "i", "m", "e", "l", "i", "n", "e">>,
     <<"w", "h", "e", "n">>,
     <<"d", "e", "a", "d", "l", "i", "n", "e">>,
     <<"n", "e", "x", "t">>,
     <<"w", "h", "a", "t", " ", "s", "h", "o", "u", "l", "d">>,
     <<"h", "e", "l", "p">>,
     <<"u", "n", "i", "v", "e", "r", "s", "i", "t">>,
     <<"w", "h", "a", "t", "s", "h", "o", "u", "l", "d">>,
     <<"h", "e", "l", "l", "o">>}
\* keywords in other letter cases, and "what  should" with two spaces
Cased ==
    {<<"R", "e", "c", "o", "m", "m", "e", "n", "d">>,
     <<"S", "U", "G", "G", "E", "S", "T">>,
     <<"U", "n", "i", "v", "e", "r", "s", "i", "t", "y">>,
     <<"U", "N", "I", "V", "E", "R", "S", "I", "T", "I", "E", "S">>,
     <<"P", "r", "o", "f", "i", "l", "e">>,
     <<"C", "H", "A", "N", "C", "E", "S">>,
     <<"S", "t", "r", "e", "n", "g", "t", "h">>,
     <<"B", "U", "D", "G", "E", "T">>,
     <<"C", "o", "s", "t">>,
     <<"A", "F", "F", "O", "R", "D">>,
     <<"E", "x", "p", "e", "n", "s", "i", "v", "e">>,
     <<"T", "I", "M", "E", "L", "I", "N", "E">>,
     <<"W", "h", "e", "n">>,
     <<"D", "E", "A", "D", "L", "I", "N", "E">>,
     <<"N", "e", "x", "t">>,
     <<"W", "h", "a", "t", " ", "S", "h", "o", "u", "l", "d">>,
     <<"H", "E", "L", "P">>,
     <<"w", "h", "a", "t", " ", " ", "s", "h", "o", "u", "l", "d">>}

\* one keyword of each group and a word that is none, to build phrases from
Leading ==
    {<<"s", "u", "g", "g", "e", "s", "t">>,
     <<"s", "t", "r", "e", "n", "g", "t", "h">>,
     <<"c", "o", "s", "t">>,
     <<"w", "h", "e", "n">>,
     <<"h", "e", "l", "p">>,
     <<"h", "e", "l", "l", "o">>}

RECURSIVE Phrases(_)
Phrases(n) == IF n = 1 THEN Leading ELSE {p \o <<" ">> \o w : p \in Phrases(n - 1), w \in Leading}
Messages == Words \cup Cased \cup UNION {Phrases(n) : n \in 1..MaxWords}

\* no row of the table passes the filters of FilledPreferences
ForeignUniversities == [u \in Unis |-> [ranking |-> u, country |-> "UK", tuition_fee_min |-> 1]]

InitAI ==
    /\ current_stage \in Range(UserStage)
    /\ onboarding_completed = TRUE
    /\ shortlist = {}
    /\ lockedRows = <<>>
    /\ tasks = <<>>
    /\ chat_messages = <<ChatRow("assistant", <<>>, Welcome)>>
    /\ preferences = FilledPreferences
    /\ universities \in {ListedUniversities, TiedUniversities, ForeignUniversities}
    /\ profile = [current_stage |-> current_stage, onboarding_completed |-> TRUE, preferences |-> preferences]
    /\ route = "counsellor"
    /\ shortlisted = {}
    /\ locked = {}
    /\ categoryDialog = 0
    /\ unlockDialog = 0
    /\ uniLoading = TRUE
    /\ uh = [h \in {"first", "second"} |-> IdleHandler]
    /\ tasksState = <<>>
    /\ lockedUniversities = <<>>
    /\ appLoading = TRUE
    /\ ah = IdleHandler
    /\ currentStep = 1
    /\ formData = BlankPreferences
    /\ ob = IdleHandler
    /\ dashboard = BlankDashboard
    /\ dh = IdleHandler
    /\ messages = chat_messages
    /\ input \in Messages
    /\ chatLoading = FALSE
    /\ initialLoading = FALSE
    /\ lm = IdleHandler
    /\ ch = IdleHandler
    /\ replies = {}
    /\ rls = NoRequest
    /\ tab = NoTab
    /\ lm2 = IdleHandler
    /\ ch2 = IdleHandler

NextAI ==
    \/ handleSend
    \/ createUserMessage
    \/ aiGetProfile
    \/ aiGetUniversities
    \/ createAssistantMessage
    \/ handleSendReturns

SpecAI == InitAI /\ [][NextAI]_vars


\* ------------------------------------------------------------------------
\* SpecRecommend: the counsellor is asked for recommendations over
\* universities tables of 0..MaxListed rows
\* ------------------------------------------------------------------------
\* rankings descend with the id, or pairs of rows share a ranking
RankedUniversities(n, paired) ==
    [u \in 1..n |-> [ranking |-> IF paired THEN (u + 1) \div 2 ELSE n + 1 - u,
                     country |-> IF u % 4 = 0 THEN "UK" ELSE "USA",
                     tuition_fee_min |-> IF u % 5 = 0 THEN 3 ELSE 1]]
\* profiles with and without filters; no row is in Canada
RecommendationProfiles ==
    {[gpa |-> 0, budget_max |-> 0, preferred_countries |-> {}],
     FilledPreferences,
     [gpa |-> 38, budget_max |-> 0, preferred_countries |-> {"Canada"}]}

InitRecommend ==
    /\ Explorer
    /\ chat_messages = <<ChatRow("assistant", <<>>, Welcome)>>
    /\ preferences \in RecommendationProfiles
    /\ universities \in {RankedUniversities(n, paired) : n \in 0..MaxListed, paired \in BOOLEAN}
    /\ profile = [current_stage |-> current_stage, onboarding_completed |-> TRUE, preferences |-> preferences]
    /\ route = "counsellor"
    /\ InitPages
    /\ rls = NoRequest
    /\ tab = NoTab
    /\ lm2 = IdleHandler
    /\ ch2 = IdleHandler

NextRecommend ==
    \/ chatMountEffect
    \/ getChatMessages
    \/ loadMessagesReturns
    \/ \E m \in Typed : setInput(m)
    \/ handleSend
    \/ createUserMessage
    \/ aiGetProfile
    \/ aiGetUniversities
    \/ createAssistantMessage
    \/ handleSendReturns

SpecRecommend == InitRecommend /\ [][NextRecommend]_vars

\* ------------------------------------------------------------------------
\* Row-level security of the user-owned tables: two authenticated users who
\* are not admins send requests of their own making to the database
\* ------------------------------------------------------------------------
Users == {"A", "B"}
UserTables == {"user_shortlisted_universities", "user_locked_universities", "tasks", "chat_messages"}

\* the rows a table can hold: user_id and the column an update can change
RowsOf(t) ==
    CASE t = "user_shortlisted_universities" -> [user_id : Users, val : {"dream", "safe"}]
      [] t = "tasks" -> [user_id : Users, val : {"pending", "completed"}]
      [] OTHER -> [user_id : Users, val : {"row"}]

\* the commands that have a policy: every other command on the table is denied
HasPolicy(t, cmd) ==
    CASE t = "user_shortlisted_universities" -> TRUE
      [] t = "user_locked_universities" -> cmd \in {"select", "insert", "delete"}
      [] t = "tasks" -> TRUE
      [] t = "chat_messages" -> cmd \in {"select", "insert"}

\* tables without row-level security
PolicyDisabled(t, cmd, uid, row) == TRUE
\* USING / WITH CHECK (auth.uid() = user_id); an UPDATE policy that gives only
\* USING checks the new row with the same expression
Policy(t, cmd, uid, row) == HasPolicy(t, cmd) /\ uid = row.user_id

Asked(u, cmd, w) == [rls EXCEPT !.actor = u, !.cmd = cmd, !.eq = w, !.returned = {}, !.error = FALSE]

\* select * from t where user_id = w
rlsSelect(u, w) ==
    /\ rls' = [Asked(u, "select", w) EXCEPT
                  !.returned = {r \in rls.rows : r.user_id = w /\ Policy(rls.table, "select", u, r)}]
    /\ UNCHANGED <<current_stage, onboarding_completed, shortlist, lockedRows, tasks, chat_messages,
                   preferences, universities, tab, lm2, ch2, profile, route, uniVars, appVars, onbVars, dashVars, chatVars>>

\* insert into t values (row)
rlsInsert(u, row) ==
    /\ rls' = IF Policy(rls.table, "insert", u, row)
              THEN [Asked(u, "insert", row.user_id) EXCEPT !.rows = @ \cup {row}]
              ELSE [Asked(u, "insert", row.user_id) EXCEPT !.error = TRUE]
    /\ UNCHANGED <<current_stage, onboarding_completed, shortlist, lockedRows, tasks, chat_messages,
                   preferences, universities, tab, lm2, ch2, profile, route, uniVars, appVars, onbVars, dashVars, chatVars>>

\* update t set (user_id, val) = new where user_id = w
rlsUpdate(u, w, new) ==
    /\ LET t == rls.table
           hit == {r \in rls.rows : r.user_id = w /\ Policy(t, "select", u, r) /\ Policy(t, "update", u, r)} IN
       rls' = IF hit # {} /\ ~Policy(t, "update", u, new)
              THEN [Asked(u, "update", w) EXCEPT !.error = TRUE]
              ELSE [Asked(u, "update", w) EXCEPT
                       !.rows = (@ \ hit) \cup (IF hit = {} THEN {} ELSE {new}),
                       !.returned = IF hit = {} THEN {} ELSE {new}]
    /\ UNCHANGED <<current_stage, onboarding_completed, shortlist, lockedRows, tasks, chat_messages,
                   preferences, universities, tab, lm2, ch2, profile, route, uniVars, appVars, onbVars, dashVars, chatVars>>

\* delete from t where user_id = w
rlsDelete(u, w) ==
    /\ LET t == rls.table
           hit == {r \in rls.rows : r.user_id = w /\ Policy(t, "select", u, r) /\ Policy(t, "delete", u, r)} IN
       rls' = [Asked(u, "delete", w) EXCEPT !.rows = @ \ hit]
    /\ UNCHANGED <<current_stage, onboarding_completed, shortlist, lockedRows, tasks, chat_messages,
                   preferences, universities, tab, lm2, ch2, profile, route, uniVars, appVars, onbVars, dashVars, chatVars>>

InitRls ==
    /\ InitDb
    /\ profile = [current_stage |-> "not_started", onboarding_completed |-> FALSE, preferences |-> BlankPreferences]
    /\ route = "dashboard"
    /\ InitPages
    /\ rls \in {[NoRequest EXCEPT !.table = t] : t \in UserTables}
    /\ tab = NoTab
    /\ lm2 = IdleHandler
    /\ ch2 = IdleHandler

NextRls ==
    \/ \E u \in Users, w \in Users : rlsSelect(u, w)
    \/ \E u \in Users : \E row \in RowsOf(rls.table) : rlsInsert(u, row)
    \/ \E u \in Users, w \in Users : \E new \in RowsOf(rls.table) : rlsUpdate(u, w, new)
    \/ \E u \in Users, w \in Users : rlsDelete(u, w)

SpecRls == InitRls /\ [][NextRls]_vars
\* ------------------------------------------------------------------------
\* Properties
\* ------------------------------------------------------------------------

\* C1: every change of current_stage goes from a stage to its immediate
\* successor in the order not_started, onboarding, exploring, shortlisting,
\* committed, applying.
StageMovesToSuccessor ==
    [][current_stage' # current_stage => StageIndex(current_stage') = StageIndex(current_stage) + 1]_vars

\* C2: current_stage never moves backward in the order of the stages, also
\* when the onboarding form is submitted again after a later stage was reached.
StageNeverMovesBack ==
    [][StageIndex(current_stage') >= StageIndex(current_stage)]_vars

\* C3: in every state reachable through the actions of the Universities page,
\* also when a button is clicked while an earlier handler is awaiting, every
\* locked university is on the shortlist.
LockedAreShortlisted == Range(lockedRows) \subseteq ShortlistedIds

\* C4: a row is inserted into tasks only while the user has a locked
\* university, and the task view is shown only when the last loaded locked
\* list is not empty.
TasksNeedLockedUniversity ==
    [][/\ Len(tasks') > Len(tasks) => Len(lockedRows) > 0
       /\ TaskViewShown' => Len(lockedUniversities') > 0]_vars

\* the handlers of user actions that have returned without a failed call
UserActions ==
    {"handleAddToShortlist", "handleRemoveFromShortlist", "handleLock", "handleUnlock",
     "handleCreateTask", "handleToggleTask", "handleDeleteTask", "handleSend"}
Finished == {r \in {uh["first"], uh["second"], ah, ch} : r.pc = "done" /\ r.op \in UserActions /\ ~r.err}

Running == {uh["first"], uh["second"], ah, ob, dh, lm, ch}
Joined == {"getShortlistedUniversities", "getLockedUniversities", "getTasks"}

\* C6 as the specification states it: every call of a data-access function is
\* one round trip to one table, the calls of lockUniversity among them (a
\* select that embeds the university is read as a select of one table).
OneRoundTripOneTable ==
    \A r \in Running :
        r.call.fn # "none" /\ r.call.returned =>
            /\ r.call.trips = 1
            /\ Cardinality(r.call.tables) = 1 \/ r.call.fn \in Joined

\* C6: every data-access function the pages call other than lockUniversity
\* ends after one round trip, to one table or, for the three functions that
\* embed the university, to its table joined with universities. A call of
\* lockUniversity ends after one round trip only when its insert fails; it
\* returns after two (insert into user_locked_universities, read of profiles)
\* with the stage committed or applying, or after three (the third writes
\* profiles) with the stage committed.
RoundTripsOfDataAccess ==
    \A r \in Running :
        /\ r.call.fn \notin {"none", "lockUniversity"} =>
               /\ r.call.returned /\ r.call.trips = 1
               /\ Cardinality(r.call.tables) = IF r.call.fn \in Joined THEN 2 ELSE 1
        /\ r.call.fn = "lockUniversity" /\ ~r.call.returned => r.call.trips \in {1, 2}
        /\ r.call.fn = "lockUniversity" /\ r.call.returned =>
               \/ r.err /\ r.call.trips \in 1..3
               \/ /\ r.call.trips = 2
                  /\ r.call.tables = {"user_locked_universities", "profiles"}
                  /\ current_stage \in {"committed", "applying"}
                  /\ r.muts = 1
               \/ /\ r.call.trips = 3
                  /\ r.call.tables = {"user_locked_universities", "profiles"}
                  /\ current_stage = "committed"
                  /\ r.muts = 2

\* C6 happens: a call of lockUniversity has returned after three round trips.
LockTookThreeRoundTrips ==
    /\ uh["first"].call.fn = "lockUniversity" /\ uh["first"].call.returned
    /\ uh["first"].call.trips = 3 /\ ~uh["first"].err

\* C7: two calls of generateAIResponse with the same message, the same profile
\* row and the same universities table return the same reply.
SameQuestionSameAnswer ==
    \A a, b \in replies :
        a.userMessage = b.userMessage /\ a.profile = b.profile /\ a.universities = b.universities
            => a.response = b.response

\* C8 as the specification states it: generateAIResponse reads no table and
\* writes none while it produces the reply.
CounsellorTouchesNoTable ==
    /\ [](ch.aiReads = {})
    /\ [][ch.pc \in {"aiGetProfile", "aiGetUniversities"} => dbVars' = dbVars]_vars

\* C8: generateAIResponse writes no table; it reads the profile row itself on
\* every call, and reads the universities table when and only when the
\* message asks for a recommendation.
CounsellorReadsButNeverWrites ==
    /\ [](/\ ch.pc = "aiGetProfile" => ch.aiReads = {}
          /\ ch.pc = "aiGetUniversities" => ch.aiReads = {"profiles"}
          /\ ch.pc = "createAssistantMessage" =>
                 /\ ch.aiProfile = ProfileRow
                 /\ ch.aiReads = IF \E w \in RecommendationWords : includes(toLowerCase(ch.text), w)
                                 THEN {"profiles", "universities"}
                                 ELSE {"profiles"})
    /\ [][ch.pc \in {"aiGetProfile", "aiGetUniversities"} => dbVars' = dbVars]_vars

\* C8 happens: generateAIResponse has returned a recommendation after reading
\* both tables.
CounsellorReadTwoTables ==
    /\ ch.pc = "createAssistantMessage"
    /\ ch.aiReads = {"profiles", "universities"}
    /\ ch.reply.template = "recommendation"

\* the keyword groups in the order of precedence the specification gives
GroupsInOrder == <<RecommendationWords, ProfileWords, BudgetWords, TimelineWords, NextStepsWords>>
sameLetter(a, b) == a = b \/ \E n \in 1..Len(UpperCase) : {a, b} = {UpperCase[n], LowerCase[n]}
containsIgnoringCase(s, w) == \E k \in 0..(Len(s) - Len(w)) : \A n \in 1..Len(w) : sameLetter(s[k + n], w[n])
groupsOf(s) == {g \in 1..Len(GroupsInOrder) : \E w \in GroupsInOrder[g] : containsIgnoringCase(s, w)}
firstGroup(s) == IF groupsOf(s) = {} THEN 0 ELSE CHOOSE g \in groupsOf(s) : \A other \in groupsOf(s) : g <= other

\* C9: the reply of generateAIResponse is the template of the first keyword
\* group, in the order recommendation, profile analysis, budget, timeline,
\* next steps, of which the message contains a keyword whatever its letter
\* case, and the default help text when it contains none; a next-steps
\* message gets its stage-specific reply in the stages exploring, shortlisting
\* and committed and the default help text in the other stages.
KeywordDispatchWithPrecedence ==
    \A e \in replies :
        LET g == firstGroup(e.userMessage)
            t == e.response.template
        IN  /\ g = 1 => t \in {"recommendation", "no_match"}
            /\ g = 2 => t = "profile_analysis"
            /\ g = 3 => t = "budget"
            /\ g = 4 => t = "timeline"
            /\ g = 5 => IF e.profile.current_stage \in {"exploring", "shortlisting", "committed"}
                        THEN t = "next_steps" /\ e.response.stage = e.profile.current_stage
                        ELSE t = "default"
            /\ g = 0 => t = "default"

\* C9 happens: a message with keywords of the budget and of a later group was
\* answered with the budget template.
EarlierGroupWon ==
    \E e \in replies :
        /\ Cardinality(groupsOf(e.userMessage)) = 2
        /\ firstGroup(e.userMessage) = 3
        /\ e.response.template = "budget"

\* C10 as the specification states it: every data-access call that throws
\* during a page operation is shown as an error toast and is not called again.
EveryErrorIsToasted ==
    \A r \in Running : r.toasted = r.threw /\ ~r.retried

\* C10 happens: a createTask of the default-task generation has thrown after
\* others succeeded and no error toast was shown.
GenerationFailedSilently ==
    /\ ah.threw = {"createTask"} /\ ah.op # "handleCreateTask"
    /\ ah.toasted = {}
    /\ Len(tasks) \in 1..4


\* C11: a user has at most one shortlist entry per university and it carries
\* one category of dream, target, safe; an addToShortlist for a university
\* already on the shortlist fails with an error and leaves the shortlist (the
\* entry's category with it), the locked set and current_stage unchanged.
ShortlistIsSetTaggedOnce ==
    /\ [](\A a, b \in shortlist :
              /\ a.category \in UniversityCategory
              /\ a.university_id = b.university_id => a = b)
    /\ [][\A h \in Handlers :
              uh[h].pc = "addToShortlist" /\ uh[h].arg \in ShortlistedIds /\ uh'[h] # uh[h] =>
                  /\ uh'[h].threw = {"addToShortlist"} /\ uh'[h].errToast
                  /\ shortlist' = shortlist
                  /\ lockedRows' = lockedRows
                  /\ current_stage' = current_stage]_vars

\* C11 happens: an add of a university that is on the shortlist as a dream
\* has failed with another category, and the entry is still a dream.
SecondAddRejected ==
    /\ uh["first"].op = "handleAddToShortlist"
    /\ uh["first"].toasted = {"addToShortlist"}
    /\ uh["first"].cat = "safe"
    /\ [university_id |-> uh["first"].arg, category |-> "dream"] \in shortlist

\* C12: whatever request an authenticated user who is no admin sends to the
\* shortlist, locked-university, task or chat-message table, it returns only
\* rows whose user_id is the user's own id, and it inserts, changes or deletes
\* no row with the user_id of another user.
RowLevelIsolation ==
    /\ [](\A r \in rls.returned : r.user_id = rls.actor)
    /\ [][{r \in rls'.rows : r.user_id # rls'.actor} = {r \in rls.rows : r.user_id # rls'.actor}]_vars

\* C12 happens: user A has asked to delete the tasks of user B, and the tasks
\* of B are still there.
ForeignDeleteDidNothing ==
    /\ rls.table = "tasks" /\ rls.actor = "A" /\ rls.cmd = "delete" /\ rls.eq = "B"
    /\ \E r \in rls.rows : r.user_id = "B"

ApplyingIsNotOverwritten ==
    [][current_stage = "applying" => current_stage' # "committed"]_vars

\* C15: whenever the load of the Application page changes current_stage to
\* applying, the stage before was committed and the user has at least one
\* locked university and at least one task at that moment.
ApplyingNeedsLockAndTask ==
    [][current_stage' = "applying" /\ current_stage # "applying" =>
           /\ current_stage = "committed"
           /\ Len(lockedRows) > 0
           /\ Len(tasks) > 0]_vars

\* C16: however the loads of the user's Application pages interleave, the
\* five default tasks are inserted at most once: no two tasks produced by the
\* generation carry the same default title, and each of them is attached to
\* the most recently locked university.
DefaultTasksInsertedOnce ==
    \A i, j \in 1..Len(tasks) :
        tasks[i].title \in Range(DefaultTasks) =>
            /\ tasks[i].university_id = lockedRows[Len(lockedRows)]
            /\ tasks[j].title = tasks[i].title => i = j

\* C17: the stored chat history holds at most one welcome message of the
\* assistant and it is the first message, also when the load effect runs a
\* second time while its first loadMessages is in flight.
WelcomeOnceAndFirst ==
    \A i \in 1..Len(chat_messages) : chat_messages[i].reply = Welcome => i = 1

\* C18: the stage update of handleAddToShortlist takes a stored stage
\* exploring to shortlisting and leaves every other stored stage as it is:
\* its decision is the stage the database holds when it acts.
AddAdvancesOnlyExploring ==
    [][\A h \in Handlers :
         (uh[h].op = "handleAddToShortlist" /\ uh[h].pc = "updateUserStage" /\ uh'[h].pc = "refreshProfile")
         => IF current_stage = "exploring" THEN current_stage' = "shortlisting"
                                           ELSE current_stage' = current_stage]_vars

\* C19: when handleAddToShortlist or handleLock has ended in its catch
\* block, with 'Failed to add to shortlist' or 'Failed to lock university',
\* it has changed none of the user's shortlist, locked universities and
\* stage in the database.
FailureToastMeansNoChange ==
    \A h \in Handlers :
        (uh[h].op \in {"handleAddToShortlist", "handleLock"} /\ uh[h].pc = "done" /\ ~uh[h].okToast)
        => uh[h].wrote = {}

\* C20: while the stored stage is committed or applying the user has at
\* least one locked university, also after unlockUniversity has removed the
\* last one.
CommittedHasLockedUniversity ==
    current_stage \in {"committed", "applying"} => Len(lockedRows) > 0


\* C21: handleSend saves the user message, then generates the reply, then
\* saves the assistant message: every assistant reply other than the welcome
\* stands in the history right after a user message, handleSend appends its
\* reply while the user message it answers is the last row of the history
\* and the last message displayed, and a send starts only from an input that
\* is not blank, with the trimmed input as its message.
SendSavesUserThenReply ==
    /\ [](\A i \in 1..Len(chat_messages) :
            (chat_messages[i].role = "assistant" /\ chat_messages[i].reply # Welcome)
            => i > 1 /\ chat_messages[i - 1].role = "user")
    /\ [][(ch.pc = "createAssistantMessage" /\ ch'.pc = "done" /\ ~ch'.err)
          => /\ Len(chat_messages) > 0
             /\ chat_messages[Len(chat_messages)] = ChatRow("user", ch.text, NoReply)
             /\ ChatMounted => (Len(messages) > 0 /\ messages[Len(messages)] = ChatRow("user", ch.text, NoReply))]_vars
    /\ [][(ch.pc = "idle" /\ ch'.pc # "idle")
          => trim(input) # <<>> /\ ch'.text = trim(input) /\ chat_messages' = chat_messages]_vars

\* C22: at most one handleSend is awaiting at a time: while one is, the
\* textarea and the send button start no second one.
OneSendInFlight ==
    ~(ch.pc \in SendAwaiting /\ ch2.pc \in SendAwaiting)

\* the controls of the mounted page are disabled while its handleSend is awaiting
ControlsDisabledWhileSending ==
    ch.pc \in SendAwaiting /\ ChatMounted => chatLoading

\* the universities at the 0-based positions from..to-1 of list
Positions(list, from, to) ==
    [i \in 1..((IF to < Len(list) THEN to ELSE Len(list)) - from) |-> list[from + i]]
Listed(reply) == reply.dream \o reply.target \o reply.safe

\* C23: the recommendation reply partitions the ranking-ordered filtered
\* list by position: Dream is positions 0-1, Target positions 2-4, Safe
\* positions 5-7; no university stands in two categories, at most 8 are
\* listed, a category is filled only when the one before it is full, and an
\* empty list gives the 'couldn't find universities' reply.
RecommendationPartitionsByPosition ==
    (ch.pc = "createAssistantMessage" /\ isRecommendation(ch.text))
    => \E list \in getUniversities(RecommendationFilters(ch.aiProfile)) :
         IF list = <<>>
         THEN ch.reply = Template("no_match")
         ELSE /\ ch.reply.template = "recommendation"
              /\ ch.reply.dream = Positions(list, 0, 2)
              /\ ch.reply.target = Positions(list, 2, 5)
              /\ ch.reply.safe = Positions(list, 5, 8)
              /\ Len(Listed(ch.reply)) <= 8
              /\ \A i, j \in 1..Len(Listed(ch.reply)) : Listed(ch.reply)[i] = Listed(ch.reply)[j] => i = j
              /\ Listed(ch.reply) = Positions(list, 0, 8)
              /\ ch.reply.target # <<>> => Len(ch.reply.dream) = 2
              /\ ch.reply.safe # <<>> => Len(ch.reply.target) = 3
\* a table of nine rows: three categories are full and the ninth university is not listed
NinthUniversityNotListed ==
    /\ ch.pc = "createAssistantMessage"
    /\ Len(ch.reply.dream) = 2 /\ Len(ch.reply.target) = 3 /\ Len(ch.reply.safe) = 3
    /\ \E u \in DOMAIN universities : u \notin Range(Listed(ch.reply))

\* C24: the wizard's currentStep is always in 1..4 and 1 when the page
\* mounts; while the page stays mounted it changes only by Next, by +1 from
\* below 4, and by Back, by -1 from above 1, and neither changes the form
\* data; a submit starts only on step 4 while no submit is in progress.
WizardStepsWithinBounds ==
    /\ [](currentStep \in 1..4)
    /\ [][route' # route => currentStep' = 1]_vars
    /\ [][(currentStep' # currentStep /\ route' = route)
          => /\ OnbMounted
             /\ \/ currentStep < 4 /\ currentStep' = currentStep + 1
                \/ currentStep > 1 /\ currentStep' = currentStep - 1
             /\ formData' = formData
             /\ ob' = ob
             /\ <<current_stage, onboarding_completed, preferences>>' = <<current_stage, onboarding_completed, preferences>>]_vars
    /\ [][(ob'.pc = "completeOnboarding" /\ ob.pc # "completeOnboarding")
          => OnbMounted /\ currentStep = 4 /\ ob.pc = "idle"]_vars
\* the form is filled and the submit of step 4 is awaiting
SubmitAwaitingOnLastStep ==
    /\ OnbMounted
    /\ currentStep = 4
    /\ formData = FilledPreferences
    /\ ob.pc = "completeOnboarding"

\* the 1-based position of a stage among the four journey steps, 0 before them
JourneyPosition(s) == IF StageIndex(s) > 2 THEN StageIndex(s) - 2 ELSE 0
\* a journey step shown as completed, as current, or as locked
ShownAs(step) ==
    {k \in {"completed", "current", "locked"} :
        \/ k = "completed" /\ (step.icon = "CheckCircle2" \/ "Completed" \in step.badges)
        \/ k = "current" /\ (step.icon = "Circle primary" \/ "Current" \in step.badges)
        \/ k = "locked" /\ step.disabled}

\* C25: for each current_stage every journey step is in exactly one of the
\* states completed (earlier than the stage), current (equal to it) and
\* locked with its button disabled (later than it); before the journey all
\* four steps are locked and progress is 0, and otherwise progress is 25
\* times the 1-based position of the stage; the dashboard shown renders the
\* steps of the stage of its profile.
DashboardStepsShowProgress ==
    /\ \A s \in Range(UserStage) :
         /\ \A index \in 0..3 :
              ShownAs(JourneyStep(s, index)) =
                  IF JourneyPosition(s) > index + 1 THEN {"completed"}
                  ELSE IF JourneyPosition(s) = index + 1 THEN {"current"} ELSE {"locked"}
         /\ progress(s) = 25 * JourneyPosition(s)
    /\ DashboardShown
       => /\ JourneyPosition(profile.current_stage) >= 1
          /\ \A index \in 0..3 :
               /\ JourneyStep(profile.current_stage, index).stage = UserStage[index + 3]
               /\ Cardinality(ShownAs(JourneyStep(profile.current_stage, index))) = 1
\* the dashboard of a committed user: two steps completed, one current, one locked
CommittedDashboardShown ==
    /\ DashboardShown
    /\ profile.current_stage = "committed"
    /\ [index \in 0..3 |-> ShownAs(JourneyStep(profile.current_stage, index))]
         = [index \in 0..3 |-> IF index < 2 THEN {"completed"} ELSE IF index = 2 THEN {"current"} ELSE {"locked"}]
    /\ progress(profile.current_stage) = 75

\* C26: completeOnboarding sets onboarding_completed to true and the stage
\* to exploring in one update; nothing sets onboarding_completed back to
\* false and nothing writes the stage onboarding, so onboarding_completed
\* implies a stage among exploring, shortlisting, committed, applying; the
\* dashboard's effect redirects to /onboarding exactly when its profile has
\* onboarding_completed = false, and loads its data otherwise.
OnboardingCompletionAndStageAgree ==
    /\ [](onboarding_completed => current_stage \in {"exploring", "shortlisting", "committed", "applying"})
    /\ [][onboarding_completed => onboarding_completed']_vars
    /\ [][current_stage' # current_stage => current_stage' \notin {"not_started", "onboarding"}]_vars
    /\ [][(ob.pc = "completeOnboarding" /\ ob'.pc = "refreshProfile")
          => onboarding_completed' /\ current_stage' = "exploring"]_vars
    /\ [][onboarding_completed' # onboarding_completed
          => ob.pc = "completeOnboarding" /\ ob'.pc = "refreshProfile" /\ current_stage' = "exploring"]_vars
    /\ [][dashMountEffect => ((route' = "onboarding") <=> ~profile.onboarding_completed)]_vars
    /\ [](DashboardShown \/ dh.pc = "loadData" => profile.onboarding_completed)
\* completeOnboarding has written the row of a user who had locked a university before onboarding
CompletedAfterLock ==
    /\ ob.pc = "refreshProfile"
    /\ onboarding_completed /\ current_stage = "exploring"
    /\ ~profile.onboarding_completed
    /\ Len(lockedRows) > 0

====
